---- MODULE Spec2Model ----
(***************************************************************************)
(* AssistantClient (src/common/ai/assistant-client.ts): the conversation   *)
(* store (conversation = display log, requestHistory = wire history), the  *)
(* turn loop of send(), invokeTool() and the rollback in send()'s catch.   *)
(*                                                                         *)
(* send() is an async function: it runs without interruption between two   *)
(* awaits.  It suspends at `await responses.create(...)` and at            *)
(* `await this.invokeTool(call)`, so every action below is one such        *)
(* uninterrupted stretch of one send() call, or one whole synchronous      *)
(* method (the constructor is Init, resetConversation is one action).      *)
(*                                                                         *)
(* Every item of the two sequences carries one auxiliary field, origin =   *)
(* <<turn, request number>>: the send() call and the backend response that *)
(* produced the object.  The code never reads it; it stands for the object *)
(* identity of the JavaScript values.                                      *)
(***************************************************************************)
EXTENDS Integers, Sequences, FiniteSets, TLC

VARIABLES
    options,                \* AssistantClientOptions after the constructor's merge
    openai,                 \* this.openai # null
    conversation,           \* this.conversation
    requestHistory,         \* this.requestHistory
    pc,                     \* per send() call: where it is suspended
    conversationStartIndex, \* per send() call: local of that name
    requestStartIndex,      \* per send() call: local of that name
    iteration,              \* per send() call: local of that name
    request,                \* per send() call: the backend request in flight, <<>> if none
    toolCalls,              \* per send() call: calls of the current response not yet finished
    invocation,             \* per send() call: the invokeTool() call in flight, <<>> if none
    outcome,                \* per send() call: how the returned promise settled
    preTurn,                \* history: both sequences when send() was called
    requestsIssued,         \* history: backend requests issued by each send()
    roundsRun,              \* history: responses whose tool calls each send() started to execute
    handlerLog,             \* history: every handler invocation, in order
    received,               \* history: every backend response received (origin, had tool calls)
    resetInFlight,          \* history: resetConversation() has run while a send() was in flight
    itemsReturned,          \* history: output items returned by the backend so far
    editor,                 \* the editor the handlers act on: write permission, edits, scene, material
    panel                   \* the assistant panel: isSending and the send() it awaits

vars == <<options, openai, conversation, requestHistory, pc, conversationStartIndex,
          requestStartIndex, iteration, request, toolCalls, invocation, outcome,
          preTurn, requestsIssued, roundsRun, handlerLog, received, resetInFlight, itemsReturned,
          editor, panel>>

\* what the AssistantClient does not touch
host == <<editor, panel>>

(***************************************************************************)
(* Bounds of the model.                                                    *)
(***************************************************************************)
MaxTurns == 2       \* send() calls per run
MaxItems == 2       \* output items the backend returns per run
MaxToolIter == 1    \* largest configured maxToolIterations
MaxOperations == 2  \* entries of rawArgs.operations per tool call

Turns == 1..MaxTurns

(***************************************************************************)
(* Program constants.                                                      *)
(***************************************************************************)
DEFAULT_MODEL == "gpt-5"
DEFAULT_MAX_TOOL_ITERATIONS == 60

(***************************************************************************)
(* Strings.  String.prototype.trim() on the whitespace the model uses.     *)
(***************************************************************************)
Whitespace == {" ", "\t", "\n"}

RECURSIVE TrimStart(_)
TrimStart(s) ==
    IF Len(s) > 0 /\ SubSeq(s, 1, 1) \in Whitespace
    THEN TrimStart(SubSeq(s, 2, Len(s)))
    ELSE s

RECURSIVE TrimEnd(_)
TrimEnd(s) ==
    IF Len(s) > 0 /\ SubSeq(s, Len(s), Len(s)) \in Whitespace
    THEN TrimEnd(SubSeq(s, 1, Len(s) - 1))
    ELSE s

Trim(s) == TrimEnd(TrimStart(s))

Digit(d) == SubSeq("0123456789", d + 1, d + 1)

RECURSIVE NatToString(_)
NatToString(n) == IF n < 10 THEN Digit(n) ELSE NatToString(n \div 10) \o Digit(n % 10)

IntToString(n) == IF n < 0 THEN "-" \o NatToString(0 - n) ELSE NatToString(n)

SeqsUpTo(S, n) == UNION {[1..k -> S] : k \in 0..n}

Min(a, b) == IF a < b THEN a ELSE b

\* slip: slice() for splice(): nothing is removed
SpliceNothing(arr, start) == arr

\* slip: the truncation also removes the item before start
SpliceOneMore(arr, start) == SubSeq(arr, 1, Min(start - 1, Len(arr)))

\* slip: the truncation keeps one item too many
SpliceOffByOne(arr, start) == SubSeq(arr, 1, Min(start + 1, Len(arr)))

\* Array.prototype.splice(start) with 0 <= start: removes everything from index start on.
Splice(arr, start) == SubSeq(arr, 1, Min(start, Len(arr)))

(***************************************************************************)
(* JavaScript values that cross the engine boundary, as tagged records:    *)
(* AssistantToolResult values, parsed arguments and thrown values.         *)
(***************************************************************************)
Undefined == [t |-> "undefined"]
Null == [t |-> "null"]
Str(s) == [t |-> "string", s |-> s]
Num(n) == [t |-> "number", n |-> n]
Bool(b) == [t |-> "boolean", b |-> b]
Obj(props) == [t |-> "object", props |-> props]     \* props: sequence of [key, value]
Arr(elems) == [t |-> "array", elems |-> elems]
Circular == [t |-> "circular"]                      \* an object that contains itself
Err(name, message) == [t |-> "Error", name |-> name, message |-> message]

\* slip: the message of an Error is not used
formatErrorNoMessage(error) ==
    IF error.t = "string" /\ Len(Trim(error.s)) > 0 THEN Trim(error.s)
    ELSE "Unknown error"

\* formatError(error)
formatError(error) ==
    IF error.t = "Error" THEN error.message
    ELSE IF error.t = "string" /\ Len(Trim(error.s)) > 0 THEN Trim(error.s)
    ELSE "Unknown error"

\* JSON.stringify(value, null, gap) for the values above; indent is the current indentation.
RECURSIVE JSONText(_, _, _)
RECURSIVE JSONMembers(_, _, _, _)
JSONText(value, gap, indent) ==
    CASE value.t = "null" -> "null"
      [] value.t = "undefined" -> "null"
      [] value.t = "string" -> "\"" \o value.s \o "\""
      [] value.t = "number" -> IntToString(value.n)
      [] value.t = "boolean" -> (IF value.b THEN "true" ELSE "false")
      [] value.t = "object" ->
            IF Len(value.props) = 0 THEN "{}"
            ELSE IF gap = "" THEN "{" \o JSONMembers(value.props, TRUE, gap, indent) \o "}"
            ELSE "{\n" \o JSONMembers(value.props, TRUE, gap, indent \o gap) \o "\n" \o indent \o "}"
      [] value.t = "array" ->
            IF Len(value.elems) = 0 THEN "[]"
            ELSE IF gap = "" THEN "[" \o JSONMembers(value.elems, FALSE, gap, indent) \o "]"
            ELSE "[\n" \o JSONMembers(value.elems, FALSE, gap, indent \o gap) \o "\n" \o indent \o "]"
JSONMembers(members, keyed, gap, indent) ==
    LET m == Head(members)
        one == IF keyed
               THEN indent \o "\"" \o m.key \o "\":" \o (IF gap = "" THEN "" ELSE " ")
                        \o JSONText(m.value, gap, indent)
               ELSE indent \o JSONText(m, gap, indent)
    IN IF Len(members) = 1 THEN one
       ELSE one \o "," \o (IF gap = "" THEN "" ELSE "\n") \o JSONMembers(Tail(members), keyed, gap, indent)

RECURSIVE HasCycle(_)
HasCycle(value) ==
    CASE value.t = "circular" -> TRUE
      [] value.t = "object" -> \E i \in 1..Len(value.props) : HasCycle(value.props[i].value)
      [] value.t = "array" -> \E i \in 1..Len(value.elems) : HasCycle(value.elems[i])
      [] OTHER -> FALSE

\* JSON.stringify: the text, or the TypeError it throws on a circular structure.
JSONStringify(value, gap) ==
    IF HasCycle(value)
    THEN [ok |-> FALSE, error |-> Err("TypeError", "Converting circular structure to JSON")]
    ELSE [ok |-> TRUE, text |-> JSONText(value, gap, "")]

\* slip: objects and arrays are serialized without the indent argument
serializeToolResultCompact(value) ==
    IF value.t \in {"undefined", "null"} THEN "null"
    ELSE IF value.t = "string" THEN value.s
    ELSE IF value.t \in {"number", "boolean"} THEN JSONStringify(value, "").text
    ELSE LET r == JSONStringify(value, "")
         IN IF r.ok THEN r.text
            ELSE "Unable to serialize tool result: " \o formatError(r.error)

\* serializeToolResult(value)
serializeToolResult(value) ==
    IF value.t \in {"undefined", "null"} THEN "null"
    ELSE IF value.t = "string" THEN value.s
    ELSE IF value.t \in {"number", "boolean"} THEN JSONStringify(value, "").text
    ELSE LET r == JSONStringify(value, "  ")
         IN IF r.ok THEN r.text
            ELSE "Unable to serialize tool result: " \o formatError(r.error)

\* argument payloads that pass the validation of the editing tools, and what they parse to
EditPayloads ==
    <<[text |-> "{\"operations\":[{\"entityId\":1,\"parentId\":2}]}",
       value |-> Obj(<<[key |-> "operations",
                        value |-> Arr(<<Obj(<<[key |-> "entityId", value |-> Num(1)],
                                               [key |-> "parentId", value |-> Num(2)]>>)>>)]>>)],
      [text |-> "{\"entityId\":1,\"components\":[{\"name\":\"light\"}]}",
       value |-> Obj(<<[key |-> "entityId", value |-> Num(1)],
                       [key |-> "components",
                        value |-> Arr(<<Obj(<<[key |-> "name", value |-> Str("light")]>>)>>)]>>)],
      [text |-> "{\"entityId\":1,\"scripts\":[{\"name\":\"rotate\"}]}",
       value |-> Obj(<<[key |-> "entityId", value |-> Num(1)],
                       [key |-> "scripts",
                        value |-> Arr(<<Obj(<<[key |-> "name", value |-> Str("rotate")]>>)>>)]>>)],
      [text |-> "{\"contents\":\"x\",\"filename\":\"a.js\"}",
       value |-> Obj(<<[key |-> "contents", value |-> Str("x")],
                       [key |-> "filename", value |-> Str("a.js")]>>)],
      [text |-> "{\"assetId\":7,\"data\":[{\"path\":\"opacity\",\"value\":1}]}",
       value |-> Obj(<<[key |-> "assetId", value |-> Num(7)],
                       [key |-> "data",
                        value |-> Arr(<<Obj(<<[key |-> "path", value |-> Str("opacity")],
                                               [key |-> "value", value |-> Num(1)]>>)>>)]>>)]>>

\* JSON.parse(text) on the argument payloads of the model: the value, or the SyntaxError.
JSONParse(text) ==
    LET s == Trim(text)
    IN CASE s = "{}" -> [ok |-> TRUE, value |-> Obj(<<>>)]
         [] s = "null" -> [ok |-> TRUE, value |-> Null]
         [] s = "{\"limit\":5}" -> [ok |-> TRUE, value |-> Obj(<<[key |-> "limit", value |-> Num(5)]>>)]
         [] \E k \in 1..Len(EditPayloads) : s = EditPayloads[k].text ->
                [ok |-> TRUE,
                 value |-> EditPayloads[CHOOSE k \in 1..Len(EditPayloads) :
                                            s = EditPayloads[k].text].value]
         [] OTHER -> [ok |-> FALSE, error |-> Err("SyntaxError", "Unexpected token in JSON")]

\* createToolOutput(callId, output)
createToolOutput(callId, output) ==
    [type |-> "function_call_output", call_id |-> callId, output |-> output]

(***************************************************************************)
(* Tool registry.  A Map keeps insertion order and set() of an existing    *)
(* key replaces the value in place; it is a sequence of definitions here.  *)
(***************************************************************************)
MapHas(m, name) == \E i \in 1..Len(m) : m[i].name = name
MapGet(m, name) == m[CHOOSE i \in 1..Len(m) : m[i].name = name]
\* slip: set() of a key the map already holds is ignored
MapSetKeepsFirst(m, def) ==
    IF MapHas(m, def.name) THEN m ELSE Append(m, def)

MapSet(m, def) ==
    IF MapHas(m, def.name)
    THEN [i \in 1..Len(m) |-> IF m[i].name = def.name THEN def ELSE m[i]]
    ELSE Append(m, def)

RECURSIVE NewMap(_)
NewMap(entries) ==
    IF Len(entries) = 0 THEN <<>>
    ELSE MapSet(NewMap(SubSeq(entries, 1, Len(entries) - 1)), entries[Len(entries)])

DEFAULT_TOOL_PARAMETERS == "{type:object,properties:{},additionalProperties:false}"

\* this.toolMap (constructor, line 111)
toolMap == NewMap(options.tools)

\* this.functionTools (constructor, lines 112-118); <<>> stands for undefined
functionTools ==
    [i \in 1..Len(toolMap) |->
        [type |-> "function",
         name |-> toolMap[i].name,
         description |-> toolMap[i].description,
         parameters |-> IF toolMap[i].parameters = <<>> THEN DEFAULT_TOOL_PARAMETERS
                        ELSE toolMap[i].parameters[1],
         strict |-> IF toolMap[i].strict = <<>> THEN TRUE ELSE toolMap[i].strict[1]]]

\* this.maxToolIterations (constructor, line 119)
maxToolIterations ==
    IF options.maxToolIterations = <<>> THEN DEFAULT_MAX_TOOL_ITERATIONS
    ELSE options.maxToolIterations[1]

\* this.parallelToolCalls (constructor, line 120)
parallelToolCalls ==
    IF options.parallelToolCalls = <<>> THEN FALSE ELSE options.parallelToolCalls[1]

\* slip: the API key is not looked at
createClientNoKeyCheck(opts, constructorThrows) == ~constructorThrows

\* createClient(): null without an API key or when the OpenAI constructor throws
createClient(opts, constructorThrows) == opts.apiKey # "" /\ ~constructorThrows

\* isReady()
isReady == openai

\* The system message the constructor and resetConversation() build.
systemMessage ==
    [type |-> "message", role |-> "system", content |-> options.instructions, origin |-> <<0, 0>>]

\* Both sequences right after construction / reset.
InitialItems == IF options.instructions # "" THEN <<systemMessage>> ELSE <<>>

(***************************************************************************)
(* Responses.                                                              *)
(***************************************************************************)
SelectType(output, type) == SelectSeq(output, LAMBDA item : item.type = type)

\* slip: the reasoning items are collected with unshift(), last one first
collectResponseArtifactsReversed(response) ==
    LET found == SelectType(response.output, "reasoning")
    IN [reasoningItems |-> [i \in 1..Len(found) |-> found[Len(found) + 1 - i]],
        toolCalls |-> SelectType(response.output, "function_call")]

\* collectResponseArtifacts(response)
collectResponseArtifacts(response) ==
    [reasoningItems |-> SelectType(response.output, "reasoning"),
     toolCalls |-> SelectType(response.output, "function_call")]

RECURSIVE JoinSegments(_)
JoinSegments(content) ==
    IF Len(content) = 0 THEN ""
    ELSE (IF Head(content).type = "output_text" THEN Head(content).text ELSE "")
            \o JoinSegments(Tail(content))

RECURSIVE JoinMessages(_)
JoinMessages(output) ==
    IF Len(output) = 0 THEN ""
    ELSE (IF Head(output).type = "message" THEN JoinSegments(Head(output).content) ELSE "")
            \o JoinMessages(Tail(output))

\* slip: the text joined from the message items is returned untrimmed
extractTextUntrimmed(response) ==
    IF response.output_text # "" THEN Trim(response.output_text)
    ELSE JoinMessages(response.output)

\* extractText(response)
extractText(response) ==
    IF response.output_text # "" THEN Trim(response.output_text)
    ELSE Trim(JoinMessages(response.output))

(***************************************************************************)
(* Inputs: configurations, user texts, backend responses and rejections,   *)
(* handler outcomes.                                                       *)
(***************************************************************************)
ToolDef(name, handler) ==
    [name |-> name, description |-> "editor tool", parameters |-> <<>>, strict |-> <<>>,
     handler |-> handler]

RegisteredTools == <<ToolDef("find_entities", "h1"), ToolDef("write_script_asset", "h2")>>

\* a tool list that defines write_script_asset twice
DuplicateTools ==
    <<ToolDef("write_script_asset", "h0"), ToolDef("find_entities", "h1"),
      ToolDef("write_script_asset", "h2")>>

Instructions == "You are an assistant."

Config(apiKey, instructions, tools, maxIter, parallel) ==
    [apiKey |-> apiKey, model |-> "", instructions |-> instructions, tools |-> tools,
     maxToolIterations |-> maxIter, parallelToolCalls |-> parallel]

\* options as the constructor resolves them (caller's options over ENV_FALLBACKS)
Configs ==
    {Config("sk-test", Instructions, RegisteredTools, <<MaxToolIter>>, <<>>),
     Config("sk-test", Instructions, RegisteredTools, <<0>>, <<FALSE>>),
     Config("sk-test", "", <<>>, <<>>, <<>>),
     Config("", Instructions, RegisteredTools, <<MaxToolIter>>, <<>>)}

\* the configurations that differ in the tool list and in parallelToolCalls only
ToolConfigs ==
    {Config("sk-test", Instructions, RegisteredTools, <<MaxToolIter>>, <<FALSE>>),
     Config("sk-test", Instructions, DuplicateTools, <<MaxToolIter>>, <<TRUE>>)}

Texts == {"hello"}

\* (call_id, id) of a function_call item; "" is an absent field
BothIds == <<"call_1", "fc_1">>
OnlyId == <<"", "fc_1">>
NoIds == <<"", "">>

FunctionCall(name, ids, arguments, o) ==
    [type |-> "function_call", name |-> name, call_id |-> ids[1], id |-> ids[2],
     arguments |-> arguments, origin |-> o]

\* the function_call items the backend returns: a registered and an unregistered name,
\* with and without ids, with valid, blank and malformed argument payloads
FunctionCalls(o) ==
    {FunctionCall("write_script_asset", BothIds, "{}", o),
     FunctionCall("write_script_asset", OnlyId, " ", o),
     FunctionCall("write_script_asset", BothIds, "{bad", o),
     FunctionCall("write_script_asset", NoIds, "", o),
     FunctionCall("delete_project", OnlyId, "{}", o),
     FunctionCall("delete_project", NoIds, "{}", o)}

ReasoningItem(o) == [type |-> "reasoning", id |-> "rs", origin |-> o]

MessageItem(o) ==
    [type |-> "message", role |-> "assistant", status |-> "completed",
     content |-> <<[type |-> "output_text", text |-> " Done. "]>>, origin |-> o]

OutputItems(o) == {ReasoningItem(o), MessageItem(o)} \cup FunctionCalls(o)

\* the items used where resetConversation() runs at any time: a reasoning item, a call that
\* runs a handler, a call without ids
FewOutputItems(o) ==
    {ReasoningItem(o),
     FunctionCall("write_script_asset", BothIds, "{}", o),
     FunctionCall("write_script_asset", NoIds, "", o)}

\* the items used where send() calls overlap: a reasoning item, a call without ids
BareOutputItems(o) ==
    {ReasoningItem(o),
     FunctionCall("write_script_asset", NoIds, "", o)}

\* a message item with two text segments around a refusal
RichMessageItem(o) ==
    [type |-> "message", role |-> "assistant", status |-> "completed",
     content |-> <<[type |-> "output_text", text |-> "\n Hello"],
                   [type |-> "refusal", refusal |-> "I cannot."],
                   [type |-> "output_text", text |-> ", world. "]>>, origin |-> o]

\* the items of responses without tool calls
TextItems(o) == {ReasoningItem(o), MessageItem(o), RichMessageItem(o)}

\* the output lists the backend can still return
Outputs(o) == SeqsUpTo(OutputItems(o), MaxItems - itemsReturned)
FewOutputs(o) == SeqsUpTo(FewOutputItems(o), MaxItems - itemsReturned)
BareOutputs(o) == SeqsUpTo(BareOutputItems(o), MaxItems - itemsReturned)

TextOutputs(o) == SeqsUpTo(TextItems(o), MaxItems - itemsReturned)

\* response.output_text: absent, or the SDK's concatenation of the message text
OutputTexts(output) == {"", JoinMessages(output)}

\* what the awaited responses.create rejects with when options.signal (line 204) aborts it
AbortError == Err("APIUserAbortError", "Request was aborted.")

BackendErrors == {Err("APIError", "503 Service Unavailable"), AbortError}

\* how a handler call ends: a value (returned or resolved), a throw, a rejected promise
HandlerOutcomes ==
    {[kind |-> "return", value |-> Obj(<<[key |-> "totalEntities", value |-> Num(3)]>>)],
     [kind |-> "throw", error |-> Err("Error", "disk full")],
     [kind |-> "reject", error |-> Err("Error", "asset is locked")]}

\* the values a handler can return (AssistantToolResult, line 21, and undefined)
ReturnValues ==
    {Undefined, Null, Str(" ok "), Str(""), Num(3), Bool(TRUE), Bool(FALSE),
     Obj(<<>>), Arr(<<>>),
     Obj(<<[key |-> "totalEntities", value |-> Num(3)]>>),
     Arr(<<Num(1), Str("a")>>),
     Obj(<<[key |-> "ids", value |-> Arr(<<Num(1)>>)], [key |-> "ok", value |-> Bool(TRUE)]>>),
     Circular,
     Obj(<<[key |-> "self", value |-> Circular]>>)}

(***************************************************************************)
(* The editor tools.  A handler is its permission gate, the validation of  *)
(* its arguments, the lookup of its target and the edit; the edits are     *)
(* counted per kind of target.                                             *)
(***************************************************************************)
reparentEntitiesTool ==
    [name |-> "reparent_entities_in_hierarchy", edits |-> "entities",
     denied |-> "Write permission is required to modify the scene hierarchy.",
     required |-> "operations", missing |-> "operations must be a non-empty array."]
configureEntityComponentsTool ==
    [name |-> "configure_entity_components", edits |-> "entities",
     denied |-> "Write permission is required to modify entity components.",
     required |-> "entityId", missing |-> "entityId is required."]
configureEntityScriptsTool ==
    [name |-> "configure_entity_scripts", edits |-> "entities",
     denied |-> "Write permission is required to modify entity scripts.",
     required |-> "entityId", missing |-> "entityId is required."]
writeScriptTool ==
    [name |-> "write_script_asset", edits |-> "assets",
     denied |-> "Write permission is required to modify script assets.",
     required |-> "contents", missing |-> "contents must be provided as a string."]
updateMaterialAssetTool ==
    [name |-> "update_material_asset", edits |-> "assets",
     denied |-> "Write permission is required to modify material assets.",
     required |-> "assetId", missing |-> "assetId is required."]

\* the tool definitions whose handlers edit entities or assets
EditingTools ==
    <<reparentEntitiesTool, configureEntityComponentsTool, configureEntityScriptsTool,
      writeScriptTool, updateMaterialAssetTool>>
ToolNamed(name) ==
    EditingTools[CHOOSE k \in 1..Len(EditingTools) :
                             EditingTools[k].name = name]

HasOwn(value, key) ==
    /\ value.t = "object"
    /\ \E k \in 1..Len(value.props) : value.props[k].key = key
ErrorResult(message) == Obj(<<[key |-> "error", value |-> Str(message)]>>)

\* slip: the handler goes on to its arguments without asking for the write permission
handlerUngated(tool, rawArgs, permitted, found) ==
    IF ~HasOwn(rawArgs, tool.required)
    THEN [value |-> ErrorResult(tool.missing), edited |-> FALSE]
    ELSE IF ~found
    THEN [value |-> ErrorResult("No " \o tool.edits \o " found for the request."),
          edited |-> FALSE]
    ELSE [value |-> Obj(<<[key |-> "applied", value |-> Num(1)]>>), edited |-> TRUE]

\* handler(rawArgs) of a tool: the value it returns and whether it has edited its target.
\* permitted is what editor.call('permissions:write') returned to it, found whether the
\* entity or asset it looks up exists.
handler(tool, rawArgs, permitted, found) ==
    IF ~permitted
    THEN [value |-> ErrorResult(tool.denied), edited |-> FALSE]
    ELSE IF ~HasOwn(rawArgs, tool.required)
    THEN [value |-> ErrorResult(tool.missing), edited |-> FALSE]
    ELSE IF ~found
    THEN [value |-> ErrorResult("No " \o tool.edits \o " found for the request."),
          edited |-> FALSE]
    ELSE [value |-> Obj(<<[key |-> "applied", value |-> Num(1)]>>), edited |-> TRUE]

(***************************************************************************)
(* reparent_entities_in_hierarchy.  The scene is the parent of each entity *)
(* by resource id, 0 where get('parent') is null; the order of siblings    *)
(* (childIndex) and templates are left out: no entity is a template child. *)
(***************************************************************************)
Entities == {1, 2, 3}
\* editor.call('entities:root'): the entity without parent
getSceneRoot == 1
SceneAtLoad == [e \in Entities |-> IF e = getSceneRoot THEN 0 ELSE getSceneRoot]

MAX_PARENT_TRAVERSAL == 64
KEEP_CURRENT_PARENT_TOKEN == "__current__"

normalizeEntityId(value) ==
    IF value.t = "number" THEN value
    ELSE IF value.t = "string"
         THEN (IF Trim(value.s) # "" THEN Str(Trim(value.s)) ELSE Null)
         ELSE Null

\* editor.call('entities:get', id): the entity that id names, as a number or spelled as a
\* string, 0 for none
entitiesGet(id) ==
    IF id.t = "number" THEN (IF id.n \in Entities THEN id.n ELSE 0)
    ELSE IF \E e \in Entities : Digit(e) = id.s
         THEN CHOOSE e \in Entities : Digit(e) = id.s
         ELSE 0

\* editor.call('entities:reparent', [{entity, parent, index}], preserveTransform): the move
\* is applied
entitiesReparent(parent, move) == [parent EXCEPT ![move.entity] = move.parent]

\* the loop of isAncestorOf from current on
RECURSIVE ClimbFrom(_, _, _, _)
ClimbFrom(parent, candidateAncestor, current, depth) ==
    IF current = 0 \/ depth >= MAX_PARENT_TRAVERSAL THEN FALSE
    ELSE IF current = candidateAncestor THEN TRUE
    ELSE IF parent[current] = 0 THEN FALSE
    ELSE ClimbFrom(parent, candidateAncestor, parent[current], depth + 1)

isAncestorOf(parent, candidateAncestor, node) == ClimbFrom(parent, candidateAncestor, node, 0)

entityKey(normalizedEntityId) ==
    IF normalizedEntityId.t = "number" THEN "n:" \o Digit(normalizedEntityId.n)
    ELSE "s:" \o normalizedEntityId.s

\* the target parent of an entry, 0 when it cannot be resolved; the token is given in
\* lower case
targetParentOf(parent, entity, rawParentOverride) ==
    IF rawParentOverride.t = "string" /\ Trim(rawParentOverride.s) = KEEP_CURRENT_PARENT_TOKEN
    THEN (IF parent[entity] # 0 THEN parent[entity] ELSE getSceneRoot)
    ELSE IF rawParentOverride.t = "null" THEN getSceneRoot
    ELSE IF normalizeEntityId(rawParentOverride).t # "null"
         THEN entitiesGet(normalizeEntityId(rawParentOverride))
         ELSE 0

\* the error of an entry whose target parent is not resolved
parentResolutionError(rawParentOverride) ==
    IF /\ ~(/\ rawParentOverride.t = "string"
            /\ Trim(rawParentOverride.s) = KEEP_CURRENT_PARENT_TOKEN)
       /\ rawParentOverride.t # "null"
       /\ normalizeEntityId(rawParentOverride).t = "null"
    THEN "parentId must be null, \"__current__\", or a valid entity id/GUID."
    ELSE "Unable to resolve the target parent entity."

\* an id in a template literal
idText(id) == IF id.t = "number" THEN Digit(id.n) ELSE id.s

Rejects(error) == [status |-> "error", error |-> error]

\* the first loop of the handler over limitedOperations from entry k on (lines 182-314):
\* the results and the moves to apply
RECURSIVE validateFrom(_, _, _, _, _, _)
validateFrom(parent, operations, k, processedEntities, results, movesToApply) ==
    IF k > Len(operations) THEN [results |-> results, movesToApply |-> movesToApply]
    ELSE
    LET entry == operations[k]
        normalizedEntityId == normalizeEntityId(entry.entityId)
        entity == entitiesGet(normalizedEntityId)
        targetParent == targetParentOf(parent, entity, entry.parentId)
        skip(error, processed) ==
            validateFrom(parent, operations, k + 1, processed,
                         Append(results, Rejects(error)), movesToApply)
    IN IF normalizedEntityId.t = "null"
       THEN skip("Each operations entry must include a valid entityId.", processedEntities)
       ELSE IF entity = 0
       THEN skip("No entity found with id " \o idText(normalizedEntityId) \o ".",
                 processedEntities)
       ELSE IF entityKey(normalizedEntityId) \in processedEntities
       THEN skip("Each entity can only be moved once per tool call.", processedEntities)
       ELSE LET processed == processedEntities \cup {entityKey(normalizedEntityId)}
            IN IF entity = getSceneRoot
               THEN skip("The scene root entity cannot be reparented.", processed)
               ELSE IF targetParent = 0
               THEN skip(parentResolutionError(entry.parentId), processed)
               ELSE IF targetParent = entity
               THEN skip("Cannot reparent an entity under itself.", processed)
               ELSE IF isAncestorOf(parent, entity, targetParent)
               THEN skip("Cannot reparent an entity under one of its descendants.",
                         processed)
               ELSE validateFrom(parent, operations, k + 1, processed,
                                 Append(results, [status |-> "pending", error |-> ""]),
                                 Append(movesToApply,
                                        [entity |-> entity, parent |-> targetParent,
                                         result |-> Len(results) + 1]))

\* the second loop of the handler from move k on (lines 316-331)
RECURSIVE applyFrom(_, _, _, _)
applyFrom(parent, movesToApply, k, results) ==
    IF k > Len(movesToApply) THEN [parent |-> parent, results |-> results]
    ELSE applyFrom(entitiesReparent(parent, movesToApply[k]), movesToApply, k + 1,
                   [results EXCEPT ![movesToApply[k].result].status = "moved"])

\* reparentEntitiesTool.handler(rawArgs) on the scene parent, rawArgs.operations being
\* operations: its error or results, the scene it leaves and the entities it has handed
\* to 'entities:reparent', in order
reparentEntitiesHandler(parent, permitted, operations) ==
    IF ~permitted
    THEN [error |-> reparentEntitiesTool.denied, parent |-> parent, results |-> <<>>,
          reparented |-> <<>>]
    ELSE IF Len(operations) = 0
    THEN [error |-> reparentEntitiesTool.missing, parent |-> parent, results |-> <<>>,
          reparented |-> <<>>]
    ELSE LET checked == validateFrom(parent, operations, 1, {}, <<>>, <<>>)
             done == applyFrom(parent, checked.movesToApply, 1, checked.results)
         IN [error |-> "", parent |-> done.parent, results |-> done.results,
             reparented |-> [i \in 1..Len(checked.movesToApply) |->
                                 checked.movesToApply[i].entity]]

(***************************************************************************)
(* update_material_asset.  The assets are a material and a texture; the    *)
(* data of the material is the value at each path, Undefined where the     *)
(* path is not set.                                                        *)
(***************************************************************************)
MaterialPaths == {"opacity", "useFog"}
MaterialAtLoad == [p \in MaterialPaths |-> IF p = "opacity" THEN Num(1) ELSE Undefined]

MAX_UPDATE_DEPTH == 8

\* value[key], undefined where value has no such property
Member(value, key) ==
    IF HasOwn(value, key)
    THEN value.props[CHOOSE k \in 1..Len(value.props) : value.props[k].key = key].value
    ELSE Undefined

\* editor.call('assets:get', id): the type of the asset, "" for none
assetsGet(id) == CASE id = 7 -> "material" [] id = 8 -> "texture" [] OTHER -> ""

\* asset.set('data.' + path, value), asset.unset('data.' + path), asset.has('data.' + path)
assetSet(data, path, value) == [data EXCEPT ![path] = value]
assetUnset(data, path) == [data EXCEPT ![path] = Undefined]
assetHas(data, path) == path \in DOMAIN data /\ data[path] # Undefined

RECURSIVE cloneWritableValue(_, _)
cloneWritableValue(value, depth) ==
    IF depth > MAX_UPDATE_DEPTH THEN Null
    ELSE IF value.t = "array"
    THEN Arr([i \in 1..Len(value.elems) |-> cloneWritableValue(value.elems[i], depth + 1)])
    ELSE IF value.t = "object"
    THEN Obj([i \in 1..Len(value.props) |->
                  [key |-> value.props[i].key,
                   value |-> cloneWritableValue(value.props[i].value, depth + 1)]])
    ELSE value

\* applyObserverRemovals(asset, 'data', removals, removedPaths) from entry k on
RECURSIVE applyObserverRemovals(_, _, _, _)
applyObserverRemovals(data, removals, k, changedPaths) ==
    IF k > Len(removals) THEN [data |-> data, changedPaths |-> changedPaths]
    ELSE LET entry == removals[k]
             trimmed == IF entry.t = "string" THEN Trim(entry.s) ELSE ""
         IN IF entry.t # "string" \/ trimmed = "" \/ ~assetHas(data, trimmed)
            THEN applyObserverRemovals(data, removals, k + 1, changedPaths)
            ELSE applyObserverRemovals(assetUnset(data, trimmed), removals, k + 1,
                                       Append(changedPaths, "data." \o trimmed))

\* the loop of the handler over limitedUpdates from entry k on (lines 220-248): the error
\* it returns with, if any, and the data it has set so far
RECURSIVE updateFrom(_, _, _, _)
updateFrom(data, limitedUpdates, k, updatedPaths) ==
    IF k > Len(limitedUpdates)
    THEN [error |-> "", data |-> data, updatedPaths |-> updatedPaths]
    ELSE
    LET update == limitedUpdates[k]
        rawPath == Member(update, "path")
        path == IF rawPath.t = "string" THEN Trim(rawPath.s) ELSE ""
        given == IF HasOwn(update, "value") /\ Member(update, "value").t # "undefined"
                 THEN Member(update, "value") ELSE Null
        jsonValue == Member(update, "jsonValue")
        rawJson == IF jsonValue.t = "string" THEN Trim(jsonValue.s) ELSE ""
        parsed == JSONParse(rawJson)
        value == IF rawJson # "" THEN parsed.value ELSE given
        returns(error) == [error |-> error, data |-> data, updatedPaths |-> updatedPaths]
    IN IF update.t # "object"
       THEN returns("Each entry in data must be an object with path/value/jsonValue.")
       ELSE IF path = ""
       THEN returns("Each data entry requires a non-empty \"path\".")
       ELSE IF rawJson # "" /\ ~parsed.ok
       THEN returns("jsonValue for material path \"" \o path \o "\" is invalid JSON: "
                        \o parsed.error.message)
       ELSE updateFrom(assetSet(data, path, cloneWritableValue(value, 0)), limitedUpdates,
                       k + 1, Append(updatedPaths, "data." \o path))

\* updateMaterialAssetTool.handler(rawArgs) on the data of the material: the error of its
\* result, "" when the result is a summary, the paths it reports and the data it leaves
updateMaterialAssetHandler(data, permitted, rawArgs) ==
    LET fails(error) == [error |-> error, data |-> data, updatedPaths |-> <<>>,
                         removedPaths |-> <<>>]
    IN IF ~permitted THEN fails(updateMaterialAssetTool.denied)
       ELSE IF rawArgs.assetId.t # "number" THEN fails(updateMaterialAssetTool.missing)
       ELSE IF assetsGet(rawArgs.assetId.n) = ""
       THEN fails("No asset found with id " \o Digit(rawArgs.assetId.n) \o ".")
       ELSE IF assetsGet(rawArgs.assetId.n) # "material"
       THEN fails("Asset " \o Digit(rawArgs.assetId.n) \o " is a \""
                      \o assetsGet(rawArgs.assetId.n) \o "\" asset, not a material.")
       ELSE IF rawArgs.data.t \notin {"null", "undefined", "array"}
       THEN fails("data must be an array of update entries.")
       ELSE IF rawArgs.removals.t \notin {"null", "undefined", "array"}
       THEN fails("removals must be an array of path strings.")
       ELSE LET updated == IF rawArgs.data.t = "array"
                           THEN updateFrom(data, rawArgs.data.elems, 1, <<>>)
                           ELSE [error |-> "", data |-> data, updatedPaths |-> <<>>]
                removed == IF rawArgs.removals.t = "array"
                           THEN applyObserverRemovals(updated.data, rawArgs.removals.elems,
                                                      1, <<>>)
                           ELSE [data |-> updated.data, changedPaths |-> <<>>]
            IN IF updated.error # ""
               THEN [error |-> updated.error, data |-> updated.data,
                     updatedPaths |-> <<>>, removedPaths |-> <<>>]
               ELSE [error |-> "", data |-> removed.data,
                     updatedPaths |-> updated.updatedPaths,
                     removedPaths |-> removed.changedPaths]

\* the editor when the panel is created: the user may write, no handler has asked yet
EditorAtLoad ==
    [permissionsWrite |-> TRUE, checked |-> [t \in Turns |-> <<>>],
     entities |-> 0, assets |-> 0,
     parent |-> SceneAtLoad, reparented |-> <<>>, results |-> <<>>,
     data |-> MaterialAtLoad,
     updated |-> [error |-> "", updatedPaths |-> <<>>, removedPaths |-> <<>>]]

\* the panel when it is created (lines 223, 286-291): nothing is being sent; without a
\* ready client the Send button is disabled and the input read-only
PanelAtLoad ==
    [isSending |-> FALSE, awaiting |-> 0, dropped |-> FALSE,
     sendButtonEnabled |-> isReady, readOnly |-> ~isReady]

\* setSendingState(sending) (assistant-panel.ts lines 218-221)
setSendingState(p, sending) ==
    [p EXCEPT !.sendButtonEnabled = isReady /\ ~sending, !.readOnly = sending]

(***************************************************************************)
(* Initial state: the constructor.                                         *)
(***************************************************************************)
\* the state the constructor leaves, for options drawn from configs
Constructed(configs) ==
    /\ options \in configs
    /\ \E constructorThrows \in BOOLEAN : openai = createClient(options, constructorThrows)
    /\ conversation = InitialItems
    /\ requestHistory = InitialItems
    /\ pc = [t \in Turns |-> "idle"]
    /\ conversationStartIndex = [t \in Turns |-> 0]
    /\ requestStartIndex = [t \in Turns |-> 0]
    /\ iteration = [t \in Turns |-> 0]
    /\ request = [t \in Turns |-> <<>>]
    /\ toolCalls = [t \in Turns |-> <<>>]
    /\ invocation = [t \in Turns |-> <<>>]
    /\ outcome = [t \in Turns |-> [status |-> "pending"]]
    /\ preTurn = [t \in Turns |-> <<>>]
    /\ requestsIssued = [t \in Turns |-> 0]
    /\ roundsRun = [t \in Turns |-> 0]
    /\ handlerLog = <<>>
    /\ received = {}
    /\ resetInFlight = FALSE
    /\ itemsReturned = 0
    /\ editor = EditorAtLoad
    /\ panel = PanelAtLoad

Init == Constructed(Configs)
InitTools == Constructed(ToolConfigs)

(***************************************************************************)
(* send(): the pieces between two awaits.                                  *)
(***************************************************************************)
InFlight(t) == pc[t] \in {"AwaitingBackend", "AwaitingTools"}
Quiet == \A t \in Turns : ~InFlight(t)

\* slip: tools and parallel_tool_calls are sent even when no tool is registered
CreateRequestAlwaysTools(input) ==
    [model |-> IF options.model = "" THEN DEFAULT_MODEL ELSE options.model,
     input |-> input, tools |-> functionTools, parallel_tool_calls |-> parallelToolCalls]

\* slip: the input is the history without the tool results
CreateRequestWithoutOutputs(input) ==
    IF Len(functionTools) > 0
    THEN [model |-> IF options.model = "" THEN DEFAULT_MODEL ELSE options.model,
          input |-> SelectSeq(input, LAMBDA item : item.type # "function_call_output"),
          tools |-> functionTools, parallel_tool_calls |-> parallelToolCalls]
    ELSE [model |-> IF options.model = "" THEN DEFAULT_MODEL ELSE options.model,
          input |-> SelectSeq(input, LAMBDA item : item.type # "function_call_output")]

\* the body of responses.create(...) (lines 196-205)
CreateRequest(input) ==
    IF Len(functionTools) > 0
    THEN [model |-> IF options.model = "" THEN DEFAULT_MODEL ELSE options.model,
          input |-> input, tools |-> functionTools, parallel_tool_calls |-> parallelToolCalls]
    ELSE [model |-> IF options.model = "" THEN DEFAULT_MODEL ELSE options.model,
          input |-> input]

\* the errors send() and invokeTool() construct (lines 179, 232, 236, 260)
NotConfiguredError == Err("Error", "Assistant backend is not configured.")
NoToolsError == Err("Error", "Assistant requested an editor tool, but none are registered.")
LimitError ==
    Err("Error", "Assistant exceeded the tool-call limit (" \o IntToString(maxToolIterations) \o ").")
MissingCallIdError(name) ==
    Err("Error", "Tool call \"" \o name \o "\" did not include a call id.")

\* slip: reasoning items never go to requestHistory
wireReasoningNever(reasoningItems, calls) == <<>>

\* slip: reasoning items go to requestHistory whether or not the response has tool calls
wireReasoningAlways(reasoningItems, calls) == reasoningItems

\* reasoning items pushed to requestHistory (lines 210-212)
wireReasoning(reasoningItems, calls) ==
    IF Len(calls) > 0 THEN reasoningItems ELSE <<>>

\* slip: the limit is first checked after a round of tool calls has run
limitReachedAfterFirst(iter) == iter > 0 /\ iter >= maxToolIterations

\* slip: the limit is never checked
limitReachedNever(iter) == FALSE

\* slip: > for >=
limitReachedOffByOne(iter) == iter > maxToolIterations

\* iteration >= this.maxToolIterations (line 235)
limitReached(iter) == iter >= maxToolIterations

\* slip: call.id || call.call_id
callIdPrefersId(call) == IF call.id # "" THEN call.id ELSE call.call_id

\* call.call_id || call.id (line 257)
callIdOf(call) == IF call.call_id # "" THEN call.call_id ELSE call.id

\* slip: an unregistered name is an error
toolUnavailableThrows(callId, name) ==
    [state |-> "throws",
     error |-> Err("Error", "Tool \"" \o name \o "\" is not available in this editor build.")]

\* the result for an unregistered name (lines 263-265)
toolUnavailable(callId, name) ==
    [state |-> "returns",
     output |-> createToolOutput(callId,
                    "Tool \"" \o name \o "\" is not available in this editor build.")]

\* slip: no trim()
hasArgumentsNoTrim(arguments) == arguments # ""

\* call.arguments && call.arguments.trim().length (line 268)
hasArguments(arguments) == arguments # "" /\ Len(Trim(arguments)) > 0

\* invokeTool(call) up to the point where it waits for the handler (lines 255-277):
\* it has thrown, it has returned an output, or it has called the handler
invokeTool(call) ==
    LET callId == callIdOf(call)
    IN IF callId = ""
       THEN [state |-> "throws", error |-> MissingCallIdError(call.name)]
       ELSE IF ~MapHas(toolMap, call.name)
       THEN toolUnavailable(callId, call.name)
       ELSE LET parsed == IF hasArguments(call.arguments)
                          THEN JSONParse(call.arguments)
                          ELSE [ok |-> TRUE, value |-> Obj(<<>>)]
            IN IF ~parsed.ok
               THEN [state |-> "returns",
                     output |-> createToolOutput(callId,
                         "Unable to parse arguments for \"" \o call.name \o "\": "
                             \o formatError(parsed.error) \o ".")]
               ELSE [state |-> "handler", callId |-> callId, name |-> call.name,
                     handler |-> MapGet(toolMap, call.name).handler,
                     arguments |-> parsed.value]

\* slip: no try/catch around the handler call
invokeToolSettledNoCatch(inv, settled) ==
    IF settled.kind = "return"
    THEN [state |-> "returns",
          output |-> createToolOutput(inv.callId, serializeToolResult(settled.value))]
    ELSE [state |-> "throws", error |-> settled.error]

\* invokeTool(call) once the awaited handler has settled (lines 276-281)
invokeToolSettled(inv, settled) ==
    IF settled.kind = "return"
    THEN [state |-> "returns",
          output |-> createToolOutput(inv.callId, serializeToolResult(settled.value))]
    ELSE [state |-> "returns",
          output |-> createToolOutput(inv.callId,
                         "Tool \"" \o inv.name \o "\" failed: " \o formatError(settled.error))]

Owned(output, o) ==
    [type |-> output.type, call_id |-> output.call_id, output |-> output.output, origin |-> o]

\* slip: the catch block truncates conversation only
RollbackConversationOnly(t, conv, req, error, log) ==
    /\ conversation' = Splice(conv, conversationStartIndex[t])
    /\ requestHistory' = req
    /\ pc' = [pc EXCEPT ![t] = "Failed"]
    /\ outcome' = [outcome EXCEPT ![t] = [status |-> "rejected", error |-> error]]
    /\ request' = [request EXCEPT ![t] = <<>>]
    /\ toolCalls' = [toolCalls EXCEPT ![t] = <<>>]
    /\ invocation' = [invocation EXCEPT ![t] = <<>>]
    /\ handlerLog' = log
    /\ UNCHANGED requestsIssued

\* slip: the catch block throws a new Error made from the message of the caught one
RollbackWrapped(t, conv, req, error, log) ==
    /\ conversation' = Splice(conv, conversationStartIndex[t])
    /\ requestHistory' = Splice(req, requestStartIndex[t])
    /\ pc' = [pc EXCEPT ![t] = "Failed"]
    /\ outcome' = [outcome EXCEPT ![t] = [status |-> "rejected",
                                           error |-> Err("Error", formatError(error))]]
    /\ request' = [request EXCEPT ![t] = <<>>]
    /\ toolCalls' = [toolCalls EXCEPT ![t] = <<>>]
    /\ invocation' = [invocation EXCEPT ![t] = <<>>]
    /\ handlerLog' = log
    /\ UNCHANGED requestsIssued

\* slip: the catch block calls the handlers of the failed send() once more
RollbackRetries(t, conv, req, error, log) ==
    /\ conversation' = Splice(conv, conversationStartIndex[t])
    /\ requestHistory' = Splice(req, requestStartIndex[t])
    /\ pc' = [pc EXCEPT ![t] = "Failed"]
    /\ outcome' = [outcome EXCEPT ![t] = [status |-> "rejected", error |-> error]]
    /\ request' = [request EXCEPT ![t] = <<>>]
    /\ toolCalls' = [toolCalls EXCEPT ![t] = <<>>]
    /\ invocation' = [invocation EXCEPT ![t] = <<>>]
    /\ handlerLog' = log \o SelectSeq(log, LAMBDA e : e.turn = t)
    /\ UNCHANGED requestsIssued

\* the catch block of send() (lines 248-252), applied to the sequences as they are at the throw
Rollback(t, conv, req, error, log) ==
    /\ conversation' = Splice(conv, conversationStartIndex[t])
    /\ requestHistory' = Splice(req, requestStartIndex[t])
    /\ pc' = [pc EXCEPT ![t] = "Failed"]
    /\ outcome' = [outcome EXCEPT ![t] = [status |-> "rejected", error |-> error]]
    /\ request' = [request EXCEPT ![t] = <<>>]
    /\ toolCalls' = [toolCalls EXCEPT ![t] = <<>>]
    /\ invocation' = [invocation EXCEPT ![t] = <<>>]
    /\ handlerLog' = log
    /\ UNCHANGED requestsIssued

\* slip: with parallelToolCalls the handlers of all calls of the response are started at once
BeginCallParallel(t, conv, req, calls, log) ==
    LET call == Head(calls)
        inv == invokeTool(call)
        Begun(c) == LET i == invokeTool(c)
                      IN [turn |-> t, origin |-> c.origin, name |-> i.name,
                          handler |-> i.handler, arguments |-> i.arguments, settled |-> <<>>]
        runnable == SelectSeq(IF parallelToolCalls THEN calls ELSE <<call>>,
                              LAMBDA c : invokeTool(c).state = "handler")
    IN /\ conversation' = Append(conv, call)
       /\ requestHistory' = Append(req, call)
       /\ toolCalls' = [toolCalls EXCEPT ![t] = calls]
       /\ invocation' = [invocation EXCEPT ![t] = <<inv>>]
       /\ handlerLog' = log \o [k \in 1..Len(runnable) |-> Begun(runnable[k])]
       /\ pc' = [pc EXCEPT ![t] = "AwaitingTools"]
       /\ request' = [request EXCEPT ![t] = <<>>]
       /\ UNCHANGED <<requestsIssued, outcome>>

\* the for loop (lines 240-246) from the push of calls[1] to the await of its invokeTool
BeginCall(t, conv, req, calls, log) ==
    LET call == Head(calls)
        inv == invokeTool(call)
    IN /\ conversation' = Append(conv, call)
       /\ requestHistory' = Append(req, call)
       /\ toolCalls' = [toolCalls EXCEPT ![t] = calls]
       /\ invocation' = [invocation EXCEPT ![t] = <<inv>>]
       /\ handlerLog' = IF inv.state = "handler"
                        THEN Append(log, [turn |-> t, origin |-> call.origin,
                                          name |-> inv.name, handler |-> inv.handler,
                                          arguments |-> inv.arguments, settled |-> <<>>])
                        ELSE log
       /\ pc' = [pc EXCEPT ![t] = "AwaitingTools"]
       /\ request' = [request EXCEPT ![t] = <<>>]
       /\ UNCHANGED <<requestsIssued, outcome>>

\* the top of the while loop: responses.create(...) is called and awaited (lines 195-205)
IssueRequest(t, conv, req, log) ==
    /\ conversation' = conv
    /\ requestHistory' = req
    /\ request' = [request EXCEPT ![t] = <<CreateRequest(req)>>]
    /\ requestsIssued' = [requestsIssued EXCEPT ![t] = @ + 1]
    /\ pc' = [pc EXCEPT ![t] = "AwaitingBackend"]
    /\ toolCalls' = [toolCalls EXCEPT ![t] = <<>>]
    /\ invocation' = [invocation EXCEPT ![t] = <<>>]
    /\ handlerLog' = log
    /\ UNCHANGED outcome

\* slip: invokeTool pushes the output it returns, and send() pushes it again
AfterInvokePushedTwice(t, result, log) ==
    IF result.state = "throws"
    THEN Rollback(t, conversation, requestHistory, result.error, log)
    ELSE LET o == Head(toolCalls[t]).origin
             conv == conversation \o <<Owned(result.output, o), Owned(result.output, o)>>
             req == requestHistory \o <<Owned(result.output, o), Owned(result.output, o)>>
             rest == Tail(toolCalls[t])
         IN IF Len(rest) > 0
            THEN BeginCall(t, conv, req, rest, log)
            ELSE IssueRequest(t, conv, req, log)

\* slip: the result is pushed to conversation only
AfterInvokeNoWirePush(t, result, log) ==
    IF result.state = "throws"
    THEN Rollback(t, conversation, requestHistory, result.error, log)
    ELSE LET o == Head(toolCalls[t]).origin
             conv == Append(conversation, Owned(result.output, o))
             rest == Tail(toolCalls[t])
         IN IF Len(rest) > 0
            THEN BeginCall(t, conv, requestHistory, rest, log)
            ELSE IssueRequest(t, conv, requestHistory, log)

\* lines 243-246 and on: the awaited invokeTool has settled; a throw goes to the catch
\* block, an output is pushed and the loop goes to the next call or the next request
AfterInvoke(t, result, log) ==
    IF result.state = "throws"
    THEN Rollback(t, conversation, requestHistory, result.error, log)
    ELSE LET o == Head(toolCalls[t]).origin
             conv == Append(conversation, Owned(result.output, o))
             req == Append(requestHistory, Owned(result.output, o))
             rest == Tail(toolCalls[t])
         IN IF Len(rest) > 0
            THEN BeginCall(t, conv, req, rest, log)
            ELSE IssueRequest(t, conv, req, log)

\* History is kept for the send() calls in flight and for those that settled since the
\* last send() was called; f with the entries of the earlier ones set to cleared.
Settled(t) == pc[t] \in {"Finished", "Failed"}
Forget(f, cleared) == [u \in Turns |-> IF Settled(u) THEN cleared ELSE f[u]]

\* send(text), lines 177-205
Send(t, text) ==
    /\ pc[t] = "idle"
    /\ \A u \in Turns : u < t => pc[u] # "idle"
    /\ preTurn' = [Forget(preTurn, <<>>) EXCEPT ![t] =
                      <<[conversation |-> conversation, requestHistory |-> requestHistory]>>]
    /\ roundsRun' = Forget(roundsRun, 0)
    /\ handlerLog' = SelectSeq(handlerLog, LAMBDA e : ~Settled(e.turn))
    /\ received' = {r \in received : ~Settled(r.origin[1]) \/ r.toolCalls = 0}
    /\ UNCHANGED <<toolCalls, invocation>>
    /\ IF ~openai
       THEN /\ pc' = [pc EXCEPT ![t] = "Failed"]
            /\ outcome' = [Forget(outcome, [status |-> "observed"]) EXCEPT ![t] =
                              [status |-> "rejected", error |-> NotConfiguredError]]
            /\ conversationStartIndex' = Forget(conversationStartIndex, 0)
            /\ requestStartIndex' = Forget(requestStartIndex, 0)
            /\ iteration' = Forget(iteration, 0)
            /\ requestsIssued' = Forget(requestsIssued, 0)
            /\ UNCHANGED <<conversation, requestHistory, request>>
       ELSE LET userMessage == [type |-> "message", role |-> "user", content |-> text,
                                origin |-> <<t, 0>>]
            IN /\ conversationStartIndex' =
                      [Forget(conversationStartIndex, 0) EXCEPT ![t] = Len(conversation)]
               /\ requestStartIndex' =
                      [Forget(requestStartIndex, 0) EXCEPT ![t] = Len(requestHistory)]
               /\ conversation' = Append(conversation, userMessage)
               /\ requestHistory' = Append(requestHistory, userMessage)
               /\ iteration' = [Forget(iteration, 0) EXCEPT ![t] = 0]
               /\ request' = [request EXCEPT ![t] = <<CreateRequest(requestHistory')>>]
               /\ requestsIssued' = [Forget(requestsIssued, 0) EXCEPT ![t] = 1]
               /\ pc' = [pc EXCEPT ![t] = "AwaitingBackend"]
               /\ outcome' = Forget(outcome, [status |-> "observed"])
    /\ UNCHANGED <<options, openai, resetInFlight, itemsReturned>>

\* slip: the result is built without the extracted text
AssistantResultNoText(text, response) ==
    [status |-> "resolved", text |-> "", response |-> response]

\* the value send() resolves with (lines 225-228); response is named by its origin
AssistantResult(text, response) ==
    [status |-> "resolved", text |-> text, response |-> response]

\* the awaited responses.create(...) resolves with response: lines 207-243
BackendResolves(t, response) ==
    /\ pc[t] = "AwaitingBackend"
    /\ LET art == collectResponseArtifacts(response)
           reasoningItems == art.reasoningItems
           calls == art.toolCalls
           conv == IF Len(reasoningItems) > 0 THEN conversation \o reasoningItems
                   ELSE conversation
           req == IF Len(reasoningItems) > 0
                  THEN requestHistory \o wireReasoning(reasoningItems, calls)
                  ELSE requestHistory
           o == <<t, requestsIssued[t]>>
       IN /\ itemsReturned' = itemsReturned + Len(response.output)
          /\ received' = received \cup
                 {[origin |-> o, toolCalls |-> Len(calls),
                   reasoningItems |-> Len(reasoningItems),
                   withoutId |-> Len(SelectSeq(calls,
                                     LAMBDA c : c.call_id = "" /\ c.id = "")),
                   messages |-> IF Len(calls) = 0
                                THEN SelectSeq(response.output,
                                               LAMBDA item : item.type = "message")
                                ELSE <<>>]}
          /\ IF Len(calls) = 0
             THEN LET assistantText == extractText(response)
                      assistantMessage == [type |-> "message", role |-> "assistant",
                                           content |-> assistantText, origin |-> o]
                  IN /\ conversation' = Append(conv, assistantMessage)
                     /\ requestHistory' = Append(req, assistantMessage)
                     /\ pc' = [pc EXCEPT ![t] = "Finished"]
                     /\ outcome' = [outcome EXCEPT ![t] = AssistantResult(assistantText, o)]
                     /\ request' = [request EXCEPT ![t] = <<>>]
                     /\ UNCHANGED <<iteration, toolCalls, invocation, requestsIssued,
                                    roundsRun, handlerLog>>
             ELSE IF Len(functionTools) = 0
             THEN /\ Rollback(t, conv, req, NoToolsError, handlerLog)
                  /\ UNCHANGED <<iteration, roundsRun>>
             ELSE IF limitReached(iteration[t])
             THEN /\ Rollback(t, conv, req, LimitError, handlerLog)
                  /\ UNCHANGED <<iteration, roundsRun>>
             ELSE /\ iteration' = [iteration EXCEPT ![t] = @ + 1]
                  /\ roundsRun' = [roundsRun EXCEPT ![t] = @ + 1]
                  /\ BeginCall(t, conv, req, calls, handlerLog)
    /\ UNCHANGED <<options, openai, conversationStartIndex, requestStartIndex, preTurn,
                   resetInFlight>>

\* slip: the rejection of the awaited request leaves send() without passing the catch block
BackendRejectsUncaught(t, error) ==
    /\ pc[t] = "AwaitingBackend"
    /\ pc' = [pc EXCEPT ![t] = "Failed"]
    /\ outcome' = [outcome EXCEPT ![t] = [status |-> "rejected", error |-> error]]
    /\ request' = [request EXCEPT ![t] = <<>>]
    /\ UNCHANGED <<options, openai, conversation, requestHistory, conversationStartIndex,
                   requestStartIndex, iteration, toolCalls, invocation, handlerLog,
                   requestsIssued, preTurn, roundsRun, received, resetInFlight,
                   itemsReturned>>

\* the awaited responses.create(...) rejects (transport or API failure, abort): lines 248-252
BackendRejects(t, error) ==
    /\ pc[t] = "AwaitingBackend"
    /\ Rollback(t, conversation, requestHistory, error, handlerLog)
    /\ UNCHANGED <<options, openai, conversationStartIndex, requestStartIndex, iteration,
                   preTurn, roundsRun, received, resetInFlight, itemsReturned>>

\* the awaited invokeTool(call) settles without having called a handler
InvokeToolSettles(t) ==
    /\ pc[t] = "AwaitingTools"
    /\ invocation[t][1].state \in {"throws", "returns"}
    /\ AfterInvoke(t, invocation[t][1], handlerLog)
    /\ UNCHANGED <<options, openai, conversationStartIndex, requestStartIndex, iteration,
                   preTurn, roundsRun, received, resetInFlight, itemsReturned>>

\* the entry of handlerLog for the handler that send() call t is waiting for
RunningHandler(t) ==
    CHOOSE k \in 1..Len(handlerLog) :
        /\ handlerLog[k].turn = t
        /\ \A j \in (k + 1)..Len(handlerLog) : handlerLog[j].turn # t

\* the handler called by invokeTool(call) returns, throws or its promise settles
HandlerSettles(t, settled) ==
    /\ pc[t] = "AwaitingTools"
    /\ invocation[t][1].state = "handler"
    /\ AfterInvoke(t, invokeToolSettled(invocation[t][1], settled),
                   [handlerLog EXCEPT ![RunningHandler(t)].settled = <<settled>>])
    /\ UNCHANGED <<options, openai, conversationStartIndex, requestStartIndex, iteration,
                   preTurn, roundsRun, received, resetInFlight, itemsReturned>>

\* slip: the reset keeps the user messages
ResetConversationKeepsUser ==
    /\ conversation' = InitialItems \o
           SelectSeq(conversation, LAMBDA item : item.type = "message" /\ item.role = "user")
    /\ requestHistory' = InitialItems \o
           SelectSeq(requestHistory, LAMBDA item : item.type = "message" /\ item.role = "user")
    /\ resetInFlight' = (resetInFlight \/ ~Quiet)
    /\ UNCHANGED <<options, openai, pc, conversationStartIndex, requestStartIndex, iteration,
                   request, toolCalls, invocation, outcome, preTurn, requestsIssued, roundsRun,
                   handlerLog, received, itemsReturned>>

\* slip: only the wire history is reset
ResetConversationWireOnly ==
    /\ requestHistory' = InitialItems
    /\ resetInFlight' = (resetInFlight \/ ~Quiet)
    /\ UNCHANGED <<options, openai, conversation, pc, conversationStartIndex,
                   requestStartIndex, iteration, request, toolCalls, invocation, outcome,
                   preTurn, requestsIssued, roundsRun, handlerLog, received, itemsReturned>>

\* slip: the system message is not pushed again
ResetConversationEmpty ==
    /\ conversation' = <<>>
    /\ requestHistory' = <<>>
    /\ resetInFlight' = (resetInFlight \/ ~Quiet)
    /\ UNCHANGED <<options, openai, pc, conversationStartIndex, requestStartIndex, iteration,
                   request, toolCalls, invocation, outcome, preTurn, requestsIssued, roundsRun,
                   handlerLog, received, itemsReturned>>

\* resetConversation(), lines 163-175
ResetConversation ==
    /\ conversation' = InitialItems
    /\ requestHistory' = InitialItems
    /\ resetInFlight' = (resetInFlight \/ ~Quiet)
    /\ UNCHANGED <<options, openai, pc, conversationStartIndex, requestStartIndex, iteration,
                   request, toolCalls, invocation, outcome, preTurn, requestsIssued, roundsRun,
                   handlerLog, received, itemsReturned>>

(***************************************************************************)
(* Specifications.                                                         *)
(*   Spec        the caller serializes: send() and resetConversation() are *)
(*               called only while no send() is in flight                  *)
(*   SpecTools   as Spec, for the configurations of ToolConfigs             *)
(*   SpecFair    serialized sends, the backend answering from FewOutputs,  *)
(*               every awaited promise settling eventually                 *)
(*   SpecText    serialized turns answered without tool calls              *)
(*   SpecSerialize  serialized turns of one call whose handler returns one  *)
(*               of ReturnValues                                           *)
(*   SpecReset   sends are serialized, resetConversation() at any time,    *)
(*               the backend answering from FewOutputs                     *)
(*   SpecEditor  serialized turns of a client with the editing tools, one  *)
(*               call per response, the write permission changing at any   *)
(*               time                                                      *)
(*   SpecPanel   send() called by the panel's sendMessage only             *)
(*   SpecOverlap no discipline at all: send() and resetConversation() at   *)
(*               any time, the backend answering from BareOutputs (a tool  *)
(*               call fails there at the await of invokeTool)              *)
(***************************************************************************)
SendWhenQuiet ==
    /\ \E t \in Turns, text \in Texts : Quiet /\ Send(t, text)
    /\ UNCHANGED host
SendAnytime ==
    /\ \E t \in Turns, text \in Texts : Send(t, text)
    /\ UNCHANGED host
Resolve ==
    /\ \E t \in Turns :
           \E output \in Outputs(<<t, requestsIssued[t]>>) :
               \E text \in OutputTexts(output) :
                   BackendResolves(t, [output |-> output, output_text |-> text])
    /\ UNCHANGED host
ResolveFew ==
    /\ \E t \in Turns :
           \E output \in FewOutputs(<<t, requestsIssued[t]>>) :
               BackendResolves(t, [output |-> output, output_text |-> ""])
    /\ UNCHANGED host
ResolveBare ==
    /\ \E t \in Turns :
           \E output \in BareOutputs(<<t, requestsIssued[t]>>) :
               BackendResolves(t, [output |-> output, output_text |-> ""])
    /\ UNCHANGED host
Reject ==
    /\ \E t \in Turns, error \in BackendErrors : BackendRejects(t, error)
    /\ UNCHANGED host
ToolSettles ==
    /\ \E t \in Turns : InvokeToolSettles(t)
    /\ UNCHANGED host
HandlerDone ==
    /\ \E t \in Turns, settled \in HandlerOutcomes : HandlerSettles(t, settled)
    /\ UNCHANGED host
ResetWhenQuiet == Quiet /\ ResetConversation /\ UNCHANGED host
ResetAnytime == ResetConversation /\ UNCHANGED host

Next == SendWhenQuiet \/ Resolve \/ Reject \/ ToolSettles \/ HandlerDone \/ ResetWhenQuiet
Spec == Init /\ [][Next]_vars

NextReset == SendWhenQuiet \/ ResolveFew \/ Reject \/ ToolSettles \/ HandlerDone \/ ResetAnytime
SpecReset == Init /\ [][NextReset]_vars

SpecTools == InitTools /\ [][Next]_vars

\* the backend answers with nothing or, while it can still return items, with one call of
\* a registered tool
ResolveCall ==
    /\ \E t \in Turns :
           \E output \in SeqsUpTo({FunctionCall("write_script_asset", BothIds, "{}",
                                                 <<t, requestsIssued[t]>>)},
                                   Min(1, MaxItems - itemsReturned)) :
               BackendResolves(t, [output |-> output, output_text |-> ""])
    /\ UNCHANGED host
\* the handler returns one of ReturnValues
HandlerReturns ==
    /\ \E t \in Turns, value \in ReturnValues :
           HandlerSettles(t, [kind |-> "return", value |-> value])
    /\ UNCHANGED host
NextSerialize == SendWhenQuiet \/ ResolveCall \/ HandlerReturns
SpecSerialize == Init /\ [][NextSerialize]_vars

\* the backend answers without tool calls
ResolveText ==
    /\ \E t \in Turns :
           \E output \in TextOutputs(<<t, requestsIssued[t]>>) :
               \E text \in OutputTexts(output) :
                   BackendResolves(t, [output |-> output, output_text |-> text])
    /\ UNCHANGED host
NextText == SendWhenQuiet \/ ResolveText \/ Reject
SpecText == Init /\ [][NextText]_vars


\* the items of a round whose reasoning items can be told apart
RoundItems(o) ==
    {[type |-> "reasoning", id |-> "rs_1", origin |-> o],
     [type |-> "reasoning", id |-> "rs_2", origin |-> o],
     FunctionCall("write_script_asset", BothIds, "{}", o)}

\* the output lists of a round, long enough for two reasoning items around a call
RoundOutputs(o) == SeqsUpTo(RoundItems(o), (MaxItems + 1) - itemsReturned)

\* the backend answers with reasoning items and calls in any order
ResolveRound ==
    /\ \E t \in Turns :
           \E output \in RoundOutputs(<<t, requestsIssued[t]>>) :
               BackendResolves(t, [output |-> output, output_text |-> ""])
    /\ UNCHANGED host

NextRounds == SendWhenQuiet \/ ResolveRound \/ HandlerDone
SpecRounds == Init /\ [][NextRounds]_vars
\* every pending backend request is answered and every invocation and handler call ends
Fairness ==
    /\ WF_vars(ResolveFew \/ Reject)
    /\ WF_vars(ToolSettles)
    /\ WF_vars(HandlerDone)
NextFair == SendWhenQuiet \/ ResolveFew \/ Reject \/ ToolSettles \/ HandlerDone
SpecFair == Init /\ [][NextFair]_vars /\ Fairness

\* what the AssistantClient holds and the history kept of it
client == <<options, openai, conversation, requestHistory, pc, conversationStartIndex,
            requestStartIndex, iteration, request, toolCalls, invocation, outcome,
            preTurn, requestsIssued, roundsRun, handlerLog, received, resetInFlight,
            itemsReturned>>

\* the client of the panel (assistant-panel.ts line 31) with the editor tools registered
EditorToolDefs ==
    [k \in 1..Len(EditingTools) |->
        ToolDef(EditingTools[k].name, EditingTools[k].name)]
InitEditor == Constructed({Config("sk-test", Instructions, EditorToolDefs, <<MaxToolIter>>, <<>>)})

\* the calls the backend makes of the editor tools: each with arguments that pass its
\* validation, and one with arguments that do not
EditCalls(o) ==
    {FunctionCall(EditingTools[k].name, BothIds, EditPayloads[k].text, o) :
        k \in 1..Len(EditPayloads)}
    \cup {FunctionCall("write_script_asset", BothIds, "{}", o)}

\* send() call t has called a handler in this step
HandlerEntered(t) ==
    /\ Len(handlerLog') = Len(handlerLog) + 1
    /\ handlerLog'[Len(handlerLog')].turn = t
\* e after the handlers called in this step have asked for the write permission
Entered(e) ==
    [e EXCEPT !.checked =
        [t \in Turns |->
            IF HandlerEntered(t) THEN <<e.permissionsWrite>>
            ELSE IF pc'[t] = "AwaitingTools" /\ invocation'[t][1].state = "handler"
            THEN e.checked[t]
            ELSE <<>>]]
\* e after a handler has run to its end
Edited(e, tool, edited) ==
    [e EXCEPT !.entities = IF edited /\ tool.edits = "entities" THEN @ + 1 ELSE @,
              !.assets = IF edited /\ tool.edits = "assets" THEN @ + 1 ELSE @]

\* the backend answers with nothing or with one call of an editor tool
ResolveEdit ==
    /\ \E t \in Turns :
           \E output \in SeqsUpTo(EditCalls(<<t, requestsIssued[t]>>),
                                   Min(1, MaxItems - itemsReturned)) :
               BackendResolves(t, [output |-> output, output_text |-> ""])
    /\ editor' = Entered(editor)
    /\ UNCHANGED panel
\* the handler that send() call t waits for returns
EditorHandlerReturns ==
    \E t \in Turns, found \in BOOLEAN :
        /\ pc[t] = "AwaitingTools"
        /\ invocation[t][1].state = "handler"
        /\ LET tool == ToolNamed(invocation[t][1].handler)
               run == handler(tool, invocation[t][1].arguments, editor.checked[t][1], found)
           IN /\ HandlerSettles(t, [kind |-> "return", value |-> run.value])
              /\ editor' = Entered(Edited(editor, tool, run.edited))
        /\ UNCHANGED panel
\* the user gains or loses the write permission
PermissionsChange ==
    /\ editor' = [editor EXCEPT !.permissionsWrite = ~@]
    /\ UNCHANGED <<client, panel>>
NextEditor == SendWhenQuiet \/ ResolveEdit \/ EditorHandlerReturns \/ PermissionsChange
SpecEditor == InitEditor /\ [][NextEditor]_vars


\* the entries of rawArgs.operations: the scene root, an entity by number and by string,
\* another entity, an id of no entity; under the scene root, the current parent, an entity
ReparentOperations ==
    [entityId : {Num(1), Num(2), Str(" 2 "), Num(3), Num(9)},
     parentId : {Null, Str(KEEP_CURRENT_PARENT_TOKEN), Num(2), Num(3)}]

\* reparent_entities_in_hierarchy is called with a list of operations
ReparentEntities ==
    /\ \E operations \in SeqsUpTo(ReparentOperations, MaxOperations) :
           LET run == reparentEntitiesHandler(editor.parent, editor.permissionsWrite,
                                              operations)
           IN editor' = [editor EXCEPT !.parent = run.parent,
                                       !.reparented = run.reparented,
                                       !.results = IF run.error # ""
                                                   THEN <<Rejects(run.error)>>
                                                   ELSE run.results]
    /\ UNCHANGED <<client, panel>>

NextHierarchy == ReparentEntities \/ PermissionsChange
SpecHierarchy == InitEditor /\ [][NextHierarchy]_vars

\* the entries of rawArgs.data: a primitive value, a JSON value under a padded path, a
\* jsonValue that does not parse, a blank path, an entry that is no object
MaterialUpdates ==
    {Obj(<<[key |-> "path", value |-> Str("opacity")], [key |-> "value", value |-> Num(0)],
           [key |-> "jsonValue", value |-> Null]>>),
     Obj(<<[key |-> "path", value |-> Str(" useFog ")], [key |-> "value", value |-> Null],
           [key |-> "jsonValue", value |-> Str(" {} ")]>>),
     Obj(<<[key |-> "path", value |-> Str("useFog")], [key |-> "value", value |-> Null],
           [key |-> "jsonValue", value |-> Str("{bad")]>>),
     Obj(<<[key |-> "path", value |-> Str(" ")], [key |-> "value", value |-> Num(0)],
           [key |-> "jsonValue", value |-> Null]>>),
     Null}

\* the arguments of update_material_asset: the material, a texture, no asset, an id that
\* is no number; data and removals absent, no array, or a list
MaterialArgs ==
    [assetId : {Num(7), Num(8), Num(9), Str("7")},
     data : {Null, Str("opacity")}
                \cup {Arr(updates) : updates \in SeqsUpTo(MaterialUpdates, MaxOperations)},
     removals : {Null, Str("opacity"), Arr(<<Num(1), Str(" opacity ")>>)}]

\* update_material_asset is called
UpdateMaterialAsset ==
    /\ \E rawArgs \in MaterialArgs :
           LET run == updateMaterialAssetHandler(editor.data, editor.permissionsWrite,
                                                 rawArgs)
           IN editor' = [editor EXCEPT !.data = run.data,
                                       !.updated = [error |-> run.error,
                                                    updatedPaths |-> run.updatedPaths,
                                                    removedPaths |-> run.removedPaths]]
    /\ UNCHANGED <<client, panel>>

NextMaterial == UpdateMaterialAsset \/ PermissionsChange
SpecMaterial == InitEditor /\ [][NextMaterial]_vars
\* what the user has typed into messageInput when sendMessage reads it
InputValues == {"", " hello "}
\* the listeners that call sendMessage: the Send button, Enter in the input, the editor
\* method 'assistant:sendMessage' (assistant-panel.ts lines 261-284)
Triggers == {"click", "keydown", "assistant:sendMessage"}

\* slip: sendMessage does not look at isSending
sendMessageUnguarded(value) ==
    IF ~isReady
    THEN UNCHANGED <<client, panel>>
    ELSE IF Trim(value) = ""
    THEN UNCHANGED <<client, panel>>
    ELSE \E t \in Turns :
            /\ Send(t, Trim(value))
            /\ panel' = setSendingState([panel EXCEPT !.isSending = TRUE, !.awaiting = t],
                                        TRUE)

\* sendMessage() up to its await (assistant-panel.ts lines 225-248); dropped records that
\* a call returned at the guard because of isSending
sendMessage(value) ==
    IF ~isReady \/ panel.isSending
    THEN /\ panel' = [panel EXCEPT !.dropped = @ \/ panel.isSending]
         /\ UNCHANGED client
    ELSE IF Trim(value) = ""
    THEN UNCHANGED <<client, panel>>
    ELSE \E t \in Turns :
            /\ Send(t, Trim(value))
            /\ panel' = setSendingState([panel EXCEPT !.isSending = TRUE, !.awaiting = t],
                                        TRUE)

\* a listener calls sendMessage
PanelSendMessage ==
    /\ \E trigger \in Triggers, value \in InputValues : sendMessage(value)
    /\ UNCHANGED editor
\* slip: the panel is unlocked at the end of the try block, not in a finally block
PanelResumesOnSuccess ==
    /\ panel.awaiting \in Turns
    /\ Settled(panel.awaiting)
    /\ panel' = IF outcome[panel.awaiting].status = "resolved"
                THEN setSendingState([panel EXCEPT !.isSending = FALSE, !.awaiting = 0],
                                     FALSE)
                ELSE [panel EXCEPT !.awaiting = 0]
    /\ UNCHANGED <<client, editor>>

\* sendMessage() after its await: the promise of send() has settled and the finally block
\* runs (lines 249-258)
PanelResumes ==
    /\ panel.awaiting \in Turns
    /\ Settled(panel.awaiting)
    /\ panel' = setSendingState([panel EXCEPT !.isSending = FALSE, !.awaiting = 0], FALSE)
    /\ UNCHANGED <<client, editor>>
NextPanel ==
    PanelSendMessage \/ ResolveFew \/ Reject \/ ToolSettles \/ HandlerDone \/ PanelResumes
SpecPanel == Init /\ [][NextPanel]_vars

\* the continuation of sendMessage() runs once the promise it awaits has settled
SpecPanelFair == Init /\ [][NextPanel]_vars /\ WF_vars(PanelResumes)

NextOverlap == SendAnytime \/ ResolveBare \/ Reject \/ ToolSettles \/ ResetAnytime
SpecOverlap == Init /\ [][NextOverlap]_vars

TypeOK ==
    /\ editor.permissionsWrite \in BOOLEAN /\ editor.entities \in Nat /\ editor.assets \in Nat
    /\ panel.isSending \in BOOLEAN /\ panel.awaiting \in Turns \cup {0}
    /\ panel.isSending = (panel.awaiting # 0)
    /\ panel.readOnly \in BOOLEAN /\ panel.sendButtonEnabled \in BOOLEAN
    /\ Len(conversation) >= Len(InitialItems)
    /\ \A t \in Turns : pc[t] \in {"idle", "AwaitingBackend", "AwaitingTools", "Finished", "Failed"}

(***************************************************************************)
(* Properties.                                                             *)
(***************************************************************************)
Rejected(t) == outcome[t].status = "rejected"
Resolved(t) == outcome[t].status = "resolved"
Started(t) == requestsIssued[t] > 0

\* C1: rollback atomicity.  With sends and resets serialized, at the step where a send()
\* throws, both sequences are item for item what they were when that send() was called.
C1_RollbackAtomicity ==
    [][\A t \in Turns :
          (~Rejected(t) /\ Rejected(t)') =>
              /\ conversation' = preTurn'[t][1].conversation
              /\ requestHistory' = preTurn'[t][1].requestHistory]_vars

\* a send() on a ready client with earlier content has run a round of tools and then thrown
C1_Witness ==
    \E t \in Turns :
        /\ openai /\ Rejected(t) /\ roundsRun[t] >= 1
        /\ Len(preTurn[t][1].requestHistory) > Len(InitialItems)
        /\ conversation = preTurn[t][1].conversation
        /\ requestHistory = preTurn[t][1].requestHistory

CalledNames == {"write_script_asset", "delete_project"}
ThreeFatalErrors == BackendErrors \cup {NoToolsError, LimitError}

\* C2 as stated: a started turn fails only with a backend error, the iteration-limit error
\* or the no-tools error, and invokeTool never throws.
C2_OnlyThreeFatalEvents ==
    \A t \in Turns :
        /\ invocation[t] # <<>> => invocation[t][1].state # "throws"
        /\ Rejected(t) /\ Started(t) => outcome[t].error \in ThreeFatalErrors

\* C2 amended: a started turn fails only with a backend error, the iteration-limit error,
\* the no-tools error or invokeTool's missing-call-id error; invokeTool throws exactly for
\* a call whose call_id and id are both absent, whatever the handlers do.
C2_FatalEvents ==
    \A t \in Turns :
        /\ invocation[t] # <<>> =>
              LET call == Head(toolCalls[t])
              IN IF call.call_id = "" /\ call.id = ""
                 THEN invocation[t][1] = [state |-> "throws", error |-> MissingCallIdError(call.name)]
                 ELSE invocation[t][1].state \in {"returns", "handler"}
        /\ Rejected(t) /\ Started(t) =>
              outcome[t].error \in
                  ThreeFatalErrors \cup {MissingCallIdError(n) : n \in CalledNames}

\* a handler has thrown, its turn went on, and the turn then failed on a call without ids
C2_Witness ==
    \E t \in Turns :
        /\ Rejected(t)
        /\ outcome[t].error \in {MissingCallIdError(n) : n \in CalledNames}
        /\ \E k \in 1..Len(handlerLog) :
              /\ handlerLog[k].turn = t
              /\ handlerLog[k].settled # <<>>
              /\ handlerLog[k].settled[1].kind \in {"throw", "reject"}

\* the id a function_call_output must carry for call: call_id, or id when call_id is empty
IdOf(call) == IF call.call_id # "" THEN call.call_id ELSE call.id
HasId(call) == call.call_id # "" \/ call.id # ""

\* every function_call of seq is directly followed by its function_call_output, and every
\* function_call_output directly follows a function_call
Paired(seq) ==
    \A i \in 1..Len(seq) :
        /\ seq[i].type = "function_call" =>
              /\ i < Len(seq)
              /\ seq[i + 1].type = "function_call_output"
              /\ seq[i + 1].call_id = IdOf(seq[i])
        /\ seq[i].type = "function_call_output" =>
              /\ i > 1
              /\ seq[i - 1].type = "function_call"

\* send() call t issues a backend request in this step
Issues(t) == requestsIssued'[t] > requestsIssued[t]

\* C3 as stated: with sends serialized, whenever a backend request is issued every
\* function_call of both sequences is directly followed by exactly one function_call_output
\* with its call_id (or id), and there is no function_call_output without such a call.
C3_PairingWhenSerialized ==
    [][\A t \in Turns :
          Issues(t) =>
              /\ request'[t][1].input = requestHistory'
              /\ Paired(requestHistory')
              /\ Paired(conversation')]_vars

\* C3 amended: the same, as long as resetConversation() has never run while a send() was
\* in flight.
C3_Pairing ==
    [][\A t \in Turns :
          (Issues(t) /\ ~resetInFlight') =>
              /\ request'[t][1].input = requestHistory'
              /\ Paired(requestHistory')
              /\ Paired(conversation')]_vars

\* a request is in flight whose input holds a call and its result, after a reset at rest
C3_Witness ==
    \E t \in Turns :
        /\ ~resetInFlight
        /\ request[t] # <<>>
        /\ roundsRun[t] >= 1
        /\ \E i \in 1..Len(request[t][1].input) :
              request[t][1].input[i].type = "function_call_output"

\* the responses send() call t has received
ResponsesOf(t) == {r \in received : r.origin[1] = t}
\* the backend has answered every request of t so far, each time with a tool call
AlwaysAsksForTools(t) ==
    /\ Started(t)
    /\ \A r \in ResponsesOf(t) : r.toolCalls > 0
    /\ Rejected(t) => outcome[t].error \notin BackendErrors

IterationBound(t) ==
    /\ ~Resolved(t)
    /\ requestsIssued[t] <= maxToolIterations + 1
    /\ roundsRun[t] <= maxToolIterations
    /\ Rejected(t) =>
          /\ outcome[t].error = LimitError
          /\ requestsIssued[t] = maxToolIterations + 1
          /\ roundsRun[t] = maxToolIterations
          /\ Cardinality(ResponsesOf(t)) = maxToolIterations + 1
    /\ Cardinality(ResponsesOf(t)) = maxToolIterations + 1 =>
          Rejected(t) /\ outcome[t].error = LimitError

\* C4 as stated: with N = maxToolIterations and a tool registered, a turn whose every
\* response holds a tool call issues N+1 requests, runs N rounds of tools and fails with the
\* limit error on the (N+1)th response, not earlier and not later.
C4_IterationBoundAsStated ==
    \A t \in Turns :
        (Len(functionTools) > 0 /\ AlwaysAsksForTools(t)) => IterationBound(t)

\* C4 amended: the same for a turn in which every tool call carries a call_id or an id.
C4_IterationBound ==
    \A t \in Turns :
        (/\ AlwaysAsksForTools(t)
         /\ \A r \in ResponsesOf(t) : r.withoutId = 0
         /\ Len(functionTools) > 0) => IterationBound(t)

\* with N >= 1, a turn has run N rounds and failed with the limit error on response N+1
C4_Witness ==
    \E t \in Turns :
        /\ maxToolIterations >= 1
        /\ Rejected(t) /\ outcome[t].error = LimitError
        /\ roundsRun[t] = maxToolIterations
        /\ requestsIssued[t] = maxToolIterations + 1

\* the reasoning items of seq that came with response o
ReasoningOf(seq, o) == SelectSeq(seq, LAMBDA item : item.type = "reasoning" /\ item.origin = o)
\* response o held no tool call
Final(o) == \E r \in received : r.origin = o /\ r.toolCalls = 0
\* no reasoning item of a response without tool calls is in seq
NoFinalReasoning(seq) ==
    \A i \in 1..Len(seq) : seq[i].type = "reasoning" => ~Final(seq[i].origin)

\* C5: the reasoning items of a response without tool calls are appended to conversation
\* and are in no request input and never in requestHistory; those of a response with tool
\* calls whose turn goes on are appended to both sequences.
C5_ReasoningFiltering ==
    [][/\ \A r \in received' \ received :
             LET shown == Len(ReasoningOf(conversation', r.origin))
                 wired == Len(ReasoningOf(requestHistory', r.origin))
             IN IF r.toolCalls = 0
                THEN shown = r.reasoningItems /\ wired = 0
                ELSE pc'[r.origin[1]] = "AwaitingTools" =>
                         shown = r.reasoningItems /\ wired = r.reasoningItems
       /\ NoFinalReasoning(requestHistory)'
       /\ \A t \in Turns : request'[t] # <<>> => NoFinalReasoning(request[t][1].input)']_vars

\* the reasoning of an earlier final response is on display while a later request, whose
\* input has none of it, is in flight
C5_Witness ==
    \E t \in Turns :
        /\ request[t] # <<>>
        /\ \E i \in 1..Len(conversation) :
              /\ conversation[i].type = "reasoning"
              /\ Final(conversation[i].origin)
              /\ conversation[i].origin[1] # t
        /\ \A i \in 1..Len(request[t][1].input) : request[t][1].input[i].type # "reasoning"

\* send() call t awaits invokeTool(call)
Invoking(t) == invocation[t] # <<>>
CurrentCall(t) == Head(toolCalls[t])
ResultItem(call, output) ==
    [type |-> "function_call_output", call_id |-> IdOf(call), output |-> output,
     origin |-> call.origin]

\* in this step result is pushed right after the call that send() call t was running, in
\* both sequences, nothing is rolled back and t goes on: to the next call of the response
\* or, after the last one, to the next backend request with the result in its input
ResultAppended(t, result) ==
    /\ conversation[Len(conversation)] = CurrentCall(t)
    /\ requestHistory[Len(requestHistory)] = CurrentCall(t)
    /\ Len(conversation') > Len(conversation)
    /\ Len(requestHistory') > Len(requestHistory)
    /\ SubSeq(conversation', 1, Len(conversation) + 1) = Append(conversation, result)
    /\ SubSeq(requestHistory', 1, Len(requestHistory) + 1) = Append(requestHistory, result)
    /\ pc'[t] \in {"AwaitingTools", "AwaitingBackend"}
    /\ Len(toolCalls[t]) = 1 =>
          /\ pc'[t] = "AwaitingBackend"
          /\ request'[t][1].input = requestHistory'

UnknownTool(t) == Invoking(t) /\ ~MapHas(toolMap, CurrentCall(t).name)
NotAvailable(call) ==
    ResultItem(call, "Tool \"" \o call.name \o "\" is not available in this editor build.")

\* C6 as stated: a call of an unregistered name never throws and invokes no handler; the
\* "not available" result is appended after the call and the turn goes on.
C6_UnknownToolAsStated ==
    [][\A t \in Turns :
          UnknownTool(t) =>
              /\ invocation[t][1].state = "returns"
              /\ handlerLog' = handlerLog \/ Len(toolCalls[t]) > 1
              /\ ResultAppended(t, NotAvailable(CurrentCall(t)))]_vars

\* C6 amended: the same for a call that carries a call_id or an id.
C6_UnknownTool ==
    [][\A t \in Turns :
          (UnknownTool(t) /\ HasId(CurrentCall(t))) =>
              /\ invocation[t][1].state = "returns"
              /\ handlerLog' = handlerLog \/ Len(toolCalls[t]) > 1
              /\ ResultAppended(t, NotAvailable(CurrentCall(t)))]_vars

\* a turn that called an unregistered tool has completed with a final assistant message
C6_Witness ==
    \E t \in Turns :
        /\ Resolved(t)
        /\ handlerLog = <<>>
        /\ \E i \in 1..Len(requestHistory) :
              /\ requestHistory[i].type = "function_call_output"
              /\ requestHistory[i].origin[1] = t
              /\ requestHistory[i].output =
                     "Tool \"delete_project\" is not available in this editor build."

\* send() call t awaits a handler
Handling(t) == Invoking(t) /\ invocation[t][1].state = "handler"

\* C7: when the handler of a call throws or rejects with Error(m), the result
\* 'Tool "<name>" failed: m' is pushed after the call in both sequences, nothing is rolled
\* back and the turn goes on to the next call or the next backend request.
C7_HandlerFailureAbsorbed ==
    [][\A t \in Turns :
          (Handling(t) /\ handlerLog'[Len(handlerLog)].settled # <<>>) =>
              LET settled == handlerLog'[Len(handlerLog)].settled[1]
                  call == CurrentCall(t)
              IN (settled.kind \in {"throw", "reject"} /\ settled.error.t = "Error") =>
                     ResultAppended(t, ResultItem(call,
                         "Tool \"" \o call.name \o "\" failed: " \o settled.error.message))]_vars

\* a turn whose handler threw Error("disk full") has completed with a final message
C7_Witness ==
    \E t \in Turns :
        /\ Resolved(t)
        /\ \E k \in 1..Len(handlerLog) :
              /\ handlerLog[k].turn = t
              /\ handlerLog[k].settled = <<[kind |-> "throw", error |-> Err("Error", "disk full")]>>
        /\ \E i \in 2..Len(requestHistory) :
              /\ requestHistory[i - 1].type = "function_call"
              /\ requestHistory[i].type = "function_call_output"
              /\ requestHistory[i].output = "Tool \"write_script_asset\" failed: disk full"
              /\ conversation[i] = requestHistory[i]

Blank(arguments) == Trim(arguments) = ""
RegisteredTool(t) == Invoking(t) /\ MapHas(toolMap, CurrentCall(t).name)
\* the handler was called for the current call of t, with arguments
HandlerCalledWith(t, arguments) ==
    /\ invocation[t][1].state = "handler"
    /\ invocation[t][1].arguments = arguments
    /\ handlerLog # <<>>
    /\ handlerLog[Len(handlerLog)].turn = t
    /\ handlerLog[Len(handlerLog)].name = CurrentCall(t).name
    /\ handlerLog[Len(handlerLog)].arguments = arguments
    /\ handlerLog[Len(handlerLog)].settled = <<>>
ParseFailure(call) ==
    ResultItem(call, "Unable to parse arguments for \"" \o call.name \o "\": "
                         \o JSONParse(call.arguments).error.message \o ".")

ArgumentHandling(t) ==
    LET call == CurrentCall(t)
    IN IF Blank(call.arguments)
       THEN HandlerCalledWith(t, Obj(<<>>))
       ELSE ~JSONParse(call.arguments).ok =>
                /\ invocation[t][1].state = "returns"
                /\ handlerLog' = handlerLog \/ Len(toolCalls[t]) > 1
                /\ ResultAppended(t, ParseFailure(call))

\* C8 as stated: for a call of a registered tool, blank arguments call the handler with an
\* empty object; arguments that are not blank and not JSON call no handler, the parse-error
\* result is appended and the turn goes on.
C8_ArgumentsAsStated ==
    [][\A t \in Turns : RegisteredTool(t) => ArgumentHandling(t)]_vars

\* C8 amended: the same for a call that carries a call_id or an id.
C8_Arguments ==
    [][\A t \in Turns :
          (RegisteredTool(t) /\ HasId(CurrentCall(t))) => ArgumentHandling(t)]_vars

\* a turn has run a handler on {} for whitespace arguments, absorbed a malformed payload
\* and completed
C8_Witness ==
    \E t \in Turns :
        /\ Resolved(t)
        /\ \E k \in 1..Len(handlerLog) :
              /\ handlerLog[k].turn = t
              /\ handlerLog[k].arguments = Obj(<<>>)
        /\ \E i, j \in 1..Len(requestHistory) :
              /\ requestHistory[i].type = "function_call"
              /\ requestHistory[i].arguments = " "
              /\ requestHistory[j].type = "function_call_output"
              /\ requestHistory[j].output =
                     "Unable to parse arguments for \"write_script_asset\": Unexpected token in JSON."

\* seq starts with the system message and holds no other
Pinned(seq) ==
    /\ Len(seq) >= 1
    /\ seq[1].type = "message" /\ seq[1].role = "system"
    /\ seq[1].content = options.instructions
    /\ \A i \in 2..Len(seq) : seq[i].type = "message" => seq[i].role # "system"

\* C9: for a client constructed with instructions, whatever send() calls, rollbacks and
\* resets have happened and however they overlapped, element 0 of both sequences is the
\* system message with those instructions and neither holds another system message.
C9_SystemMessagePinned ==
    options.instructions # "" => Pinned(conversation) /\ Pinned(requestHistory)

\* with instructions: one send() has failed and one completed, with a reset in between
C9_Witness ==
    /\ options.instructions # ""
    /\ resetInFlight
    /\ \E t, u \in Turns : Rejected(t) /\ roundsRun[t] >= 1 /\ Resolved(u)

\* C10: a client without API key is not ready, and its send() calls throw the
\* not-configured error without a backend request, a handler call or a change to either
\* sequence.
C10_FailFast ==
    options.apiKey = "" =>
        /\ ~isReady
        /\ conversation = InitialItems /\ requestHistory = InitialItems
        /\ handlerLog = <<>> /\ received = {} /\ itemsReturned = 0
        /\ \A t \in Turns :
              /\ requestsIssued[t] = 0 /\ request[t] = <<>> /\ invocation[t] = <<>>
              /\ pc[t] \in {"idle", "Failed"}
              /\ pc[t] = "Failed" => outcome[t].status \in {"rejected", "observed"}
              /\ Rejected(t) => outcome[t].error = NotConfiguredError

\* a second send() without API key has thrown
C10_Witness ==
    /\ options.apiKey = ""
    /\ \E t \in Turns : t > 1 /\ Rejected(t) /\ outcome[t].error = NotConfiguredError

\* send() call t receives a response in this step; the record of it
Receives(t) == \E r \in received' \ received : r.origin[1] = t
ResponseNow(t) == CHOOSE r \in received' \ received : r.origin[1] = t

\* C11: a client constructed without tools never sends a tools or parallel_tool_calls
\* field, and a response with a function_call fails its turn with the no-tools error
\* without an invokeTool call or a handler call.
C11_NoToolsRegistered ==
    [][Len(options.tools) = 0 =>
          /\ \A t \in Turns :
                request'[t] # <<>> =>
                    DOMAIN request'[t][1] \cap {"tools", "parallel_tool_calls"} = {}
          /\ \A t \in Turns :
                (Receives(t) /\ ResponseNow(t).toolCalls > 0) =>
                    /\ Rejected(t)' /\ outcome'[t].error = NoToolsError
                    /\ invocation'[t] = <<>>
          /\ handlerLog' = <<>>
          /\ \A t \in Turns : invocation'[t] = <<>>]_vars

\* without tools, a second turn has failed on a response that asked for a tool
C11_Witness ==
    /\ Len(options.tools) = 0 /\ openai
    /\ \E t \in Turns :
          /\ t > 1 /\ Rejected(t) /\ outcome[t].error = NoToolsError
          /\ requestsIssued[t] = 1
          /\ \E r \in received : r.origin[1] = t /\ r.toolCalls > 0

\* the items send() call t has added to the wire history
AddedToWire(t) ==
    SubSeq(requestHistory, Len(preTurn[t][1].requestHistory) + 1, Len(requestHistory))

IsMessage(item, role) == item.type = "message" /\ item.role = role

\* a is: the user message of t, then response by response (reasoning items where
\* withReasoning, then) call, result, call, result, ..., and after the last response of a
\* resolved send() the assistant message; a call still being invoked may end a.
InAppendOrder(t, a, withReasoning) ==
    /\ Len(a) >= 1
    /\ IsMessage(a[1], "user") /\ a[1].origin = <<t, 0>>
    /\ Resolved(t) => IsMessage(a[Len(a)], "assistant")
    /\ \A i \in 2..Len(a) :
          /\ a[i].origin[1] = t
          /\ a[i].origin[2] >= a[i - 1].origin[2]
          /\ CASE a[i].type = "function_call_output" ->
                    /\ a[i - 1].type = "function_call"
                    /\ a[i].call_id = IdOf(a[i - 1])
                    /\ a[i].origin = a[i - 1].origin
               [] a[i].type = "function_call" ->
                    /\ \/ i = 2
                       \/ a[i - 1].type = "function_call_output"
                       \/ a[i - 1].type = "reasoning" /\ a[i - 1].origin = a[i].origin
                    /\ i = Len(a) => InFlight(t)
               [] a[i].type = "reasoning" ->
                    /\ withReasoning
                    /\ i < Len(a)
                    /\ a[i + 1].origin = a[i].origin
                    /\ a[i + 1].type \in {"reasoning", "function_call"}
                    /\ i = 2 \/ a[i - 1].type \in {"function_call_output", "reasoning"}
               [] a[i].type = "message" ->
                    /\ IsMessage(a[i], "assistant")
                    /\ i = Len(a) /\ Resolved(t)
                    /\ i = 2 \/ a[i - 1].type = "function_call_output"

\* send() call t runs or resolves in this step
Advances(t) == InFlight(t)' \/ (InFlight(t) /\ Resolved(t)')

\* the calls of one response are taken in the order received: each call pushed is the
\* first of those not yet invoked
CallsInOrder(t) ==
    /\ (toolCalls[t] # <<>> /\ toolCalls'[t] # <<>>) => toolCalls'[t] = Tail(toolCalls[t])
    /\ toolCalls'[t] # <<>> => requestHistory'[Len(requestHistory')] = Head(toolCalls'[t])

\* C12 as stated: the items a successful turn adds to the wire history are the user
\* message, per tool-calling response its calls in the order received, each directly
\* followed by its result, and last the assistant message; the first request carries the
\* user message.
C12_AppendOrderAsStated ==
    [][\A t \in Turns :
          Advances(t) =>
              /\ InAppendOrder(t, AddedToWire(t), FALSE)'
              /\ CallsInOrder(t)
              /\ Issues(t) => request'[t][1].input = requestHistory']_vars

\* C12 amended: the same, with the reasoning items of a tool-calling response added in
\* front of that response's calls.
C12_AppendOrder ==
    [][\A t \in Turns :
          Advances(t) =>
              /\ InAppendOrder(t, AddedToWire(t), TRUE)'
              /\ CallsInOrder(t)
              /\ Issues(t) => request'[t][1].input = requestHistory']_vars

\* a turn has resolved after a response with a reasoning item and a call
C12_Witness ==
    \E t \in Turns :
        /\ Resolved(t)
        /\ Len(AddedToWire(t)) = 5
        /\ AddedToWire(t)[2].type = "reasoning"
        /\ InAppendOrder(t, AddedToWire(t), TRUE)

\* the handler calls of send() call t that have not settled
Unsettled(t) ==
    {k \in 1..Len(handlerLog) : handlerLog[k].turn = t /\ handlerLog[k].settled = <<>>}

\* at most one handler of t runs, and while it runs its call is the last item of both
\* sequences: the results of the earlier calls are already there
OneAtATime(t) ==
    /\ Cardinality(Unsettled(t)) <= 1
    /\ Handling(t) <=> Unsettled(t) # {}
    /\ Handling(t) =>
          /\ conversation[Len(conversation)] = CurrentCall(t)
          /\ requestHistory[Len(requestHistory)] = CurrentCall(t)
          /\ \A k \in Unsettled(t) :
                /\ handlerLog[k].name = CurrentCall(t).name
                /\ handlerLog[k].origin = CurrentCall(t).origin

\* a handler of t is started in this step
StartsHandler(t) == Unsettled(t)' # {} /\ Unsettled(t)' # Unsettled(t)

\* C13: the calls of one response are executed one at a time, whatever parallelToolCalls
\* is: a handler is started only in the step that receives the response (first call) or
\* that appends the result of the previous call to both sequences, and no two handlers of
\* a turn run at once.
C13_SequentialTools ==
    [][\A t \in Turns :
          /\ OneAtATime(t)'
          /\ StartsHandler(t) =>
                \/ Receives(t) /\ Len(toolCalls'[t]) = ResponseNow(t).toolCalls
                \/ /\ Invoking(t)
                   /\ toolCalls'[t] = Tail(toolCalls[t])
                   /\ conversation'[Len(conversation) + 1].type = "function_call_output"
                   /\ conversation'[Len(conversation) + 1].call_id = IdOf(CurrentCall(t))
                   /\ requestHistory'[Len(requestHistory) + 1] =
                          conversation'[Len(conversation) + 1]]_vars

\* with parallelToolCalls = TRUE the second handler of a response runs after the first
\* has settled and its result is in both sequences
C13_Witness ==
    /\ parallelToolCalls
    /\ \E t \in Turns :
          /\ Handling(t)
          /\ \E k \in 1..Len(handlerLog) :
                /\ handlerLog[k].turn = t /\ handlerLog[k].settled # <<>>
                /\ handlerLog[k].origin = CurrentCall(t).origin
          /\ conversation[Len(conversation) - 1].type = "function_call_output"
          /\ requestHistory[Len(requestHistory) - 1].type = "function_call_output"

\* the turn of send() call t, which has issued a request, fails in this step
Fails(t) == ~Rejected(t) /\ Rejected(t)' /\ Started(t)

\* C14: a failing send() rejects with the error that was raised in the turn, as it was
\* raised: the backend's rejection while a request is in flight, the no-tools or the
\* iteration-limit error on receiving a response with tool calls, the missing-call-id
\* error while a call is invoked; and at the rejection both sequences are truncated.
C14_ErrorPropagation ==
    [][\A t \in Turns :
          Fails(t) =>
              /\ (pc[t] = "AwaitingBackend" /\ ~Receives(t)) =>
                     outcome'[t].error \in BackendErrors
              /\ Receives(t) =>
                     /\ ResponseNow(t).toolCalls > 0
                     /\ outcome'[t].error =
                            IF Len(functionTools) = 0 THEN NoToolsError ELSE LimitError
              /\ Invoking(t) => outcome'[t].error = MissingCallIdError(CurrentCall(t).name)
              /\ pc[t] = "AwaitingBackend" \/ Invoking(t)
              /\ conversation' = Splice(conversation, conversationStartIndex[t])
              /\ requestHistory' = Splice(requestHistory, requestStartIndex[t])
              /\ Len(conversation') = conversationStartIndex[t]
              /\ Len(requestHistory') = requestStartIndex[t]]_vars

\* the backend rejected a later request of a turn, or the limit error ended one, and the
\* sequences are back at their recorded lengths
C14_Witness ==
    \E t \in Turns :
        /\ Rejected(t)
        /\ outcome[t].error \in BackendErrors \cup {LimitError}
        /\ requestsIssued[t] >= 1
        /\ roundsRun[t] >= 1
        /\ Len(conversation) = conversationStartIndex[t]
        /\ Len(requestHistory) = requestStartIndex[t]
        /\ Len(requestHistory) > Len(InitialItems)

\* C15: when the first response of a turn has no tool call, send() resolves on receiving
\* it, having issued one request; the wire history is its pre-turn content followed by
\* the user message and the assistant message, the display log has the reasoning items of
\* the response between the same two messages, and the resolved text is the content of
\* the assistant message.
C15_PlainAnswer ==
    [][\A t \in Turns :
          (Receives(t) /\ requestsIssued[t] = 1 /\ ResponseNow(t).toolCalls = 0) =>
              LET pre == preTurn[t][1]
                  k == ResponseNow(t).reasoningItems
                  c == conversation'
                  w == requestHistory'
                  m == Len(pre.conversation)
                  n == Len(pre.requestHistory)
              IN /\ Resolved(t)'
                 /\ requestsIssued'[t] = 1
                 /\ Len(w) = n + 2
                 /\ SubSeq(w, 1, n) = pre.requestHistory
                 /\ IsMessage(w[n + 1], "user") /\ w[n + 1].origin = <<t, 0>>
                 /\ IsMessage(w[n + 2], "assistant")
                 /\ Len(c) = m + 2 + k
                 /\ SubSeq(c, 1, m) = pre.conversation
                 /\ c[m + 1] = w[n + 1]
                 /\ c[m + 2 + k] = w[n + 2]
                 /\ \A i \in (m + 2)..(m + 1 + k) : c[i].type = "reasoning"
                 /\ outcome'[t].text = w[n + 2].content]_vars

\* a turn has resolved after one request with a non-empty text, and its response carried
\* a reasoning item, which is in the display log between the two messages
C15_Witness ==
    \E t \in Turns :
        /\ Resolved(t)
        /\ requestsIssued[t] = 1
        /\ outcome[t].text # ""
        /\ Len(requestHistory) = Len(preTurn[t][1].requestHistory) + 2
        /\ Len(conversation) = Len(preTurn[t][1].conversation) + 3
        /\ conversation[Len(conversation) - 1].type = "reasoning"
        /\ conversation[Len(conversation)].content = outcome[t].text

IsPrefix(a, b) == Len(a) <= Len(b) /\ SubSeq(b, 1, Len(a)) = a

\* after this step each sequence is what it was before send() call t, followed by items
\* of t only
KeepsPrefix(t) ==
    LET pre == preTurn'[t][1]
    IN /\ IsPrefix(pre.conversation, conversation')
       /\ IsPrefix(pre.requestHistory, requestHistory')
       /\ \A i \in (Len(pre.conversation) + 1)..Len(conversation') :
             conversation'[i].origin[1] = t
       /\ \A i \in (Len(pre.requestHistory) + 1)..Len(requestHistory') :
             requestHistory'[i].origin[1] = t
       /\ Resolved(t)' =>
             /\ Len(conversation') >= Len(pre.conversation) + 2
             /\ Len(requestHistory') >= Len(pre.requestHistory) + 2

\* send() call t is in flight after this step, or settles in it
Touches(t) == InFlight(t)' \/ (InFlight(t) /\ Settled(t)')

\* C16 as stated: with send() calls serialized, during and after every send() each
\* sequence is its pre-call content followed by items of that turn.
C16_PrefixWhenSerialized ==
    [][\A t \in Turns : Touches(t) => KeepsPrefix(t)]_vars

\* C16 amended: the same as long as resetConversation() has never run while a send() was
\* in flight; and, reset or not, the step in which a send() resolves only appends, and a
\* send() without a backend leaves both sequences alone.
C16_Prefix ==
    [][\A t \in Turns :
          /\ (Touches(t) /\ ~resetInFlight') => KeepsPrefix(t)
          /\ (InFlight(t) /\ Resolved(t)') =>
                /\ IsPrefix(conversation, conversation')
                /\ IsPrefix(requestHistory, requestHistory')
          /\ (pc[t] = "idle" /\ Rejected(t)') =>
                UNCHANGED <<conversation, requestHistory>>]_vars

\* a second turn with a round of tools has resolved, no reset having run in flight, and
\* the items of the first turn are still in front of its own
C16_Witness ==
    \E t \in Turns :
        /\ ~resetInFlight
        /\ Resolved(t)
        /\ roundsRun[t] >= 1
        /\ Len(preTurn[t][1].requestHistory) > Len(InitialItems)
        /\ IsPrefix(preTurn[t][1].requestHistory, requestHistory)
        /\ IsPrefix(preTurn[t][1].conversation, conversation)
        /\ Len(requestHistory) >= Len(preTurn[t][1].requestHistory) + 4

\* the request send() call t awaits is aborted in this step
Aborted(t) ==
    /\ pc[t] = "AwaitingBackend"
    /\ ~Receives(t)
    /\ pc'[t] # "AwaitingBackend"

\* C17: when the backend request a send() awaits is aborted, at whatever iteration, the
\* send() rejects with the abort error in that step, both sequences are what they were
\* before the call, tool calls and results of earlier iterations included in the removal,
\* and the turn issues no further request.
C17_CancellationUndoes ==
    [][\A t \in Turns :
          /\ Aborted(t) =>
                /\ Rejected(t)'
                /\ outcome'[t].error \in BackendErrors
                /\ conversation' = preTurn[t][1].conversation
                /\ requestHistory' = preTurn[t][1].requestHistory
                /\ \A i \in 1..Len(requestHistory') : requestHistory'[i].origin[1] # t
                /\ request'[t] = <<>> /\ requestsIssued'[t] = requestsIssued[t]
          /\ (Rejected(t)' /\ ~Rejected(t) /\ outcome'[t].error = AbortError) => Aborted(t)]_vars

\* the second request of a turn was aborted: the call and result of the first iteration
\* had been appended, and both sequences are back at their pre-turn contents
C17_Witness ==
    \E t \in Turns :
        /\ Rejected(t)
        /\ outcome[t].error = AbortError
        /\ requestsIssued[t] = 2
        /\ roundsRun[t] = 1
        /\ \E k \in 1..Len(handlerLog) : handlerLog[k].turn = t /\ handlerLog[k].settled # <<>>
        /\ conversation = preTurn[t][1].conversation
        /\ requestHistory = preTurn[t][1].requestHistory

StartsWith(s, p) == Len(s) >= Len(p) /\ SubSeq(s, 1, Len(p)) = p

\* item is the result invokeTool makes for an unknown tool, unparsable arguments or a
\* failed handler
Diagnostic(item) ==
    /\ item.type = "function_call_output"
    /\ \/ StartsWith(item.output, "Tool \"")
       \/ StartsWith(item.output, "Unable to parse arguments for \"")

\* the current call of send() call t ends in this step with one of the three absorbed errors
AbsorbsError(t) ==
    /\ Invoking(t)
    /\ ~Rejected(t)'
    /\ toolCalls'[t] # toolCalls[t]
    /\ \/ UnknownTool(t)
       \/ RegisteredTool(t) /\ invocation[t][1].state = "returns"
       \/ /\ Handling(t)
          /\ handlerLog'[RunningHandler(t)].settled[1].kind \in {"throw", "reject"}

\* the wire history loses an item in this step only by the rollback of the item's turn or
\* by a reset
Removed(item) ==
    \/ ~Rejected(item.origin[1]) /\ outcome'[item.origin[1]].status = "rejected"
    \/ requestHistory' = InitialItems /\ pc' = pc

\* C18: an absorbed tool error puts its diagnostic result at the end of the wire history;
\* every request is issued with the wire history of that moment as input, the first one
\* after the last call of the response; and a diagnostic result stays where it is in the
\* wire history until the rollback of its turn or a reset.
C18_DiagnosticsReachModel ==
    [][/\ \A t \in Turns :
             /\ AbsorbsError(t) =>
                   /\ Len(requestHistory') >= Len(requestHistory) + 1
                   /\ Diagnostic(requestHistory'[Len(requestHistory) + 1])
                   /\ requestHistory'[Len(requestHistory) + 1].call_id = IdOf(CurrentCall(t))
                   /\ Len(toolCalls[t]) = 1 => Issues(t)
             /\ Issues(t) => request'[t][1].input = requestHistory'
       /\ \A i \in 1..Len(requestHistory) :
             Diagnostic(requestHistory[i]) =>
                 \/ Len(requestHistory') >= i /\ requestHistory'[i] = requestHistory[i]
                 \/ Removed(requestHistory[i])]_vars

\* the request in flight carries the parse-error result and the unknown-tool result of
\* the two calls of the previous response of its turn
C18_Witness ==
    \E t \in Turns :
        /\ request[t] # <<>>
        /\ requestsIssued[t] >= 2
        /\ \E i, j \in 1..Len(request[t][1].input) :
              /\ request[t][1].input[i].origin[1] = t
              /\ request[t][1].input[j].origin[1] = t
              /\ request[t][1].input[i].type = "function_call_output"
              /\ request[t][1].input[j].type = "function_call_output"
              /\ StartsWith(request[t][1].input[i].output, "Unable to parse")
              /\ request[t][1].input[j].output =
                     "Tool \"delete_project\" is not available in this editor build."

\* both sequences as the constructor leaves them (lines 122-130)
AsConstructed ==
    IF options.instructions = "" THEN <<>>
    ELSE <<[type |-> "message", role |-> "system", content |-> options.instructions,
            origin |-> <<0, 0>>]>>

\* C19: with no send() in flight, a step that is not the start of a send() is a
\* resetConversation(): it leaves both sequences as they were right after construction
\* (the first conjunct says what that is), whatever they held, and touches nothing else;
\* so a second reset changes nothing.
C19_ResetWhenQuiet ==
    /\ conversation = AsConstructed /\ requestHistory = AsConstructed
    /\ [][(Quiet /\ pc' = pc) =>
             /\ conversation' = AsConstructed
             /\ requestHistory' = AsConstructed
             /\ UNCHANGED <<options, openai, pc, conversationStartIndex, requestStartIndex,
                            iteration, request, toolCalls, invocation, outcome, preTurn,
                            requestsIssued, roundsRun, handlerLog, received, resetInFlight,
                            itemsReturned>>]_vars

\* a turn with a round of tools has resolved and the sequences hold the system message
\* only: they have been reset since
C19_Witness ==
    /\ Quiet
    /\ options.instructions # ""
    /\ \E t \in Turns : Resolved(t) /\ roundsRun[t] >= 1
    /\ Len(conversation) = 1 /\ conversation[1].role = "system"
    /\ requestHistory = conversation

\* the last definition of name in the constructor's tool list
LastDefinition(name) ==
    LET k == CHOOSE i \in 1..Len(options.tools) :
                 /\ options.tools[i].name = name
                 /\ \A j \in (i + 1)..Len(options.tools) : options.tools[j].name # name
    IN options.tools[k]

ListedNames == {options.tools[i].name : i \in 1..Len(options.tools)}

Occurrences(seq, name) == Cardinality({i \in 1..Len(seq) : seq[i].name = name})

\* C20: for every name of the constructor's tool list, defined once or several times, the
\* registry holds one entry, the last definition of the name; every handler called for the
\* name is the handler of that definition; and the tools of every request list the name
\* once.
C20_DuplicateNames ==
    LET registry == toolMap
        projection == functionTools
    IN /\ \A name \in ListedNames :
             /\ Occurrences(registry, name) = 1
             /\ \A i \in 1..Len(registry) :
                   registry[i].name = name => registry[i] = LastDefinition(name)
             /\ Occurrences(projection, name) = 1
             /\ \A t \in Turns :
                   request[t] # <<>> => Occurrences(request[t][1].tools, name) = 1
       /\ Len(registry) = Cardinality(ListedNames)
       /\ \A k \in 1..Len(handlerLog) :
             /\ handlerLog[k].name \in ListedNames
             /\ handlerLog[k].handler = LastDefinition(handlerLog[k].name).handler

\* write_script_asset is defined twice, a call of it has run the handler of the second
\* definition, and the request in flight lists two tools for the three definitions
C20_Witness ==
    /\ Occurrences(options.tools, "write_script_asset") = 2
    /\ \E k \in 1..Len(handlerLog) :
          /\ handlerLog[k].name = "write_script_asset"
          /\ handlerLog[k].handler = "h2"
          /\ handlerLog[k].settled # <<>>
    /\ \E t \in Turns :
          /\ request[t] # <<>>
          /\ Len(request[t][1].tools) = 2
          /\ Len(options.tools) = 3

\* what line 284-302 must give for the values of ReturnValues, written out
ExpectedOutput(value) ==
    CASE value.t \in {"undefined", "null"} -> "null"
      [] value.t = "string" -> value.s
      [] value.t = "number" -> IF value.n = 3 THEN "3" ELSE "?"
      [] value.t = "boolean" -> (IF value.b THEN "true" ELSE "false")
      [] value.t = "circular" ->
            "Unable to serialize tool result: Converting circular structure to JSON"
      [] value.t = "array" ->
            (IF Len(value.elems) = 0 THEN "[]" ELSE "[\n  1,\n  \"a\"\n]")
      [] value.t = "object" ->
            (IF Len(value.props) = 0 THEN "{}"
             ELSE IF value.props[1].key = "totalEntities" THEN "{\n  \"totalEntities\": 3\n}"
             ELSE IF value.props[1].key = "ids"
             THEN "{\n  \"ids\": [\n    1\n  ],\n  \"ok\": true\n}"
             ELSE "Unable to serialize tool result: Converting circular structure to JSON")

\* C21: when a handler returns, the result pushed to both sequences is a
\* function_call_output whose output is the string 'null' for null and undefined, the
\* string itself for a string, the JSON text for a number or boolean, the JSON text
\* indented by two spaces for an object or array, and the "Unable to serialize" diagnostic
\* when JSON.stringify throws.
C21_ResultSerialization ==
    [][\A t \in Turns :
          (Handling(t) /\ handlerLog'[RunningHandler(t)].settled # <<>>) =>
              LET settled == handlerLog'[RunningHandler(t)].settled[1]
                  out == requestHistory'[Len(requestHistory) + 1]
              IN settled.kind = "return" =>
                     /\ ~Rejected(t)'
                     /\ out.type = "function_call_output"
                     /\ out.output = ExpectedOutput(settled.value)
                     /\ conversation'[Len(conversation) + 1] = out]_vars

\* one handler returned an array and one a circular object: the history holds the
\* indented text of the first and the diagnostic of the second
C21_Witness ==
    /\ \E i \in 1..Len(requestHistory) :
          /\ requestHistory[i].type = "function_call_output"
          /\ requestHistory[i].output = "[\n  1,\n  \"a\"\n]"
    /\ \E i \in 1..Len(requestHistory) :
          /\ requestHistory[i].type = "function_call_output"
          /\ requestHistory[i].output =
                 "Unable to serialize tool result: Converting circular structure to JSON"

\* the text segments of the message items of the model, written out
SegmentsOf(message) ==
    IF Len(message.content) = 1 THEN " Done. " ELSE "\n Hello" \o ", world. "

RECURSIVE Concatenation(_)
Concatenation(messages) ==
    IF messages = <<>> THEN ""
    ELSE SegmentsOf(Head(messages)) \o Concatenation(Tail(messages))

CallEnds(t) == Invoking(t) /\ toolCalls'[t] # toolCalls[t]

\* C23: the registry never changes; while a call is invoked the call stays the last item
\* of both sequences; when the invocation returns, the step adds the result after the call
\* and, if the response has another call, that call, and nothing else; when it throws,
\* the only change is the truncation by the catch block of send().
C23_InvokerPurity ==
    [][/\ options' = options
       /\ toolMap' = toolMap
       /\ \A t \in Turns :
             /\ (Invoking(t) /\ ~CallEnds(t)) => UNCHANGED <<conversation, requestHistory>>
             /\ (CallEnds(t) /\ Rejected(t)') =>
                   /\ conversation' = Splice(conversation, conversationStartIndex[t])
                   /\ requestHistory' = Splice(requestHistory, requestStartIndex[t])
             /\ (CallEnds(t) /\ ~Rejected(t)') =>
                   LET call == CurrentCall(t)
                       m == Len(conversation)
                       n == Len(requestHistory)
                       next == Tail(toolCalls[t])
                   IN /\ conversation[m] = call /\ requestHistory[n] = call
                      /\ SubSeq(conversation', 1, m) = conversation
                      /\ SubSeq(requestHistory', 1, n) = requestHistory
                      /\ requestHistory'[n + 1].type = "function_call_output"
                      /\ requestHistory'[n + 1].call_id = IdOf(call)
                      /\ conversation'[m + 1] = requestHistory'[n + 1]
                      /\ IF next = <<>>
                         THEN Len(conversation') = m + 1 /\ Len(requestHistory') = n + 1
                         ELSE /\ Len(conversation') = m + 2 /\ Len(requestHistory') = n + 2
                              /\ conversation'[m + 2] = Head(next)
                              /\ requestHistory'[n + 2] = Head(next)]_vars

\* the second call of a response is being invoked without a handler (unknown tool or
\* unparsable arguments), right after the result of the first call
C23_Witness ==
    \E t \in Turns :
        /\ Invoking(t)
        /\ invocation[t][1].state = "returns"
        /\ requestHistory[Len(requestHistory)] = CurrentCall(t)
        /\ conversation[Len(conversation)] = CurrentCall(t)
        /\ requestHistory[Len(requestHistory) - 1].type = "function_call_output"
        /\ requestHistory[Len(requestHistory) - 2].type = "function_call"

\* the moves of send() call t the claim lists, and the one from AwaitingTools to failure
ListedMoves ==
    {<<"idle", "AwaitingBackend">>, <<"idle", "Failed">>,
     <<"AwaitingBackend", "Finished">>, <<"AwaitingBackend", "Failed">>,
     <<"AwaitingBackend", "AwaitingTools">>, <<"AwaitingTools", "AwaitingBackend">>}
ThrowFromInvoker == <<"AwaitingTools", "Failed">>

\* a send() call moves by moves only, issues at most maxToolIterations + 1 requests, and
\* starts with its counter at 0 and one request issued, whatever the earlier turns did
BoundedSteps(moves) ==
    \A t \in Turns :
        /\ pc'[t] # pc[t] => <<pc[t], pc'[t]>> \in moves
        /\ requestsIssued'[t] <= maxToolIterations + 1
        /\ iteration'[t] <= maxToolIterations
        /\ (pc[t] = "idle" /\ pc'[t] = "AwaitingBackend") =>
              iteration'[t] = 0 /\ requestsIssued'[t] = 1
        /\ InFlight(t) => iteration'[t] \in {iteration[t], iteration[t] + 1}

EventuallySettles == \A t \in Turns : InFlight(t) ~> Settled(t)

\* C24 as stated: every send() in flight eventually resolves or rejects, issues at most
\* maxToolIterations + 1 requests, starts its counter at 0, and moves only from
\* AwaitingBackend to Finished, to failure or to AwaitingTools and from AwaitingTools to
\* AwaitingBackend.
C24_BoundedTurnAsStated ==
    /\ [][BoundedSteps(ListedMoves)]_vars
    /\ EventuallySettles

\* C24 amended: the same, with the move from AwaitingTools to failure, taken when
\* invokeTool throws for a call without call_id and id.
C24_BoundedTurn ==
    /\ [][BoundedSteps(ListedMoves \cup {ThrowFromInvoker})]_vars
    /\ [][\A t \in Turns :
             (pc[t] = "AwaitingTools" /\ pc'[t] = "Failed") =>
                 ~HasId(CurrentCall(t)) /\ outcome'[t].error =
                                               MissingCallIdError(CurrentCall(t).name)]_vars
    /\ EventuallySettles

\* the second send() has resolved on its last allowed request, after a first send() that
\* ran a round of tools itself
C24_Witness ==
    /\ pc[1] = "Finished"
    /\ Resolved(2)
    /\ maxToolIterations >= 1
    /\ requestsIssued[2] = maxToolIterations + 1
    /\ iteration[2] = maxToolIterations
    /\ Len(preTurn[2][1].requestHistory) >= Len(InitialItems) + 4


MutatingTools ==
    {reparentEntitiesTool.name, configureEntityComponentsTool.name,
     configureEntityScriptsTool.name, writeScriptTool.name, updateMaterialAssetTool.name}

\* C25: write-permission gating.  When the handler of reparent_entities_in_hierarchy,
\* configure_entity_components, configure_entity_scripts, write_script_asset or
\* update_material_asset was called while editor.call('permissions:write') was false, it
\* returns an object with an error property and it has edited no entity and no asset.
C25_WritePermissionGating ==
    [][\A t \in Turns :
          (/\ Handling(t)
           /\ handlerLog'[RunningHandler(t)].settled # <<>>
           /\ invocation[t][1].name \in MutatingTools
           /\ editor.checked[t] = <<FALSE>>) =>
              LET settled == handlerLog'[RunningHandler(t)].settled[1]
              IN /\ settled.kind = "return"
                 /\ HasOwn(settled.value, "error")
                 /\ editor'.entities = editor.entities
                 /\ editor'.assets = editor.assets]_vars

\* an editing handler was refused for want of the permission after another had edited
C25_Witness ==
    /\ editor.entities + editor.assets > 0
    /\ \E k \in 1..Len(handlerLog) :
          /\ handlerLog[k].name \in MutatingTools
          /\ handlerLog[k].settled # <<>>
          /\ handlerLog[k].settled[1].value = ErrorResult(ToolNamed(handlerLog[k].name).denied)


\* C26: user approval.  The handler of an editing tool is called in a step of its own:
\* the response with its function_call arrived, and the call was recorded, in an earlier
\* step, so that send() was suspended in between, where the user approves or rejects.
C26_ApprovalBeforeMutation ==
    [][\A t \in Turns :
          (HandlerEntered(t) /\ handlerLog'[Len(handlerLog')].name \in MutatingTools) =>
              UNCHANGED <<conversation, requestHistory, received>>]_vars


FailsOnResponse(t) ==
    /\ pc[t] = "AwaitingBackend"
    /\ outcome'[t].status = "rejected"
    /\ outcome'[t].error \in {LimitError, NoToolsError}
HoldsCallOf(items, o) ==
    \E k \in 1..Len(items) : items[k].type = "function_call" /\ items[k].origin = o

\* C27: no execution on the failing response.  At the step where a send() fails with the
\* iteration-limit error or the no-tools-registered error, neither sequence holds a tool
\* call of the response just received and no handler has been called; and with
\* maxToolIterations = 0 no handler is called at all.
C27_NoExecutionOnFailingResponse ==
    /\ [](maxToolIterations = 0 => handlerLog = <<>>)
    /\ [][\A t \in Turns :
             FailsOnResponse(t) =>
                 /\ ~HoldsCallOf(conversation', <<t, requestsIssued[t]>>)
                 /\ ~HoldsCallOf(requestHistory', <<t, requestsIssued[t]>>)
                 /\ handlerLog' = handlerLog
                 /\ invocation'[t] = <<>>]_vars

\* a send() has failed with the limit error on a response that carried tool calls, in a
\* client configured with maxToolIterations = 0
C27_Witness ==
    /\ maxToolIterations = 0
    /\ \E t \in Turns :
          /\ outcome[t].status = "rejected"
          /\ outcome[t].error = LimitError
          /\ \E r \in received : r.origin = <<t, requestsIssued[t]>> /\ r.toolCalls > 0


FailsNow(t) == Started(t) /\ ~Rejected(t) /\ Rejected(t)'
OthersIn(items, t) == SelectSeq(items, LAMBDA item : item.origin[1] # t)
KeptUpTo(before, after, start) ==
    /\ Len(after) <= start
    /\ \A i \in 1..Min(start, Len(before)) : i <= Len(after) /\ after[i] = before[i]
CanSend ==
    \A t \in Turns :
        (pc[t] = "idle" /\ \A u \in Turns : u < t => pc[u] # "idle") =>
            ENABLED Send(t, "hello")

\* C28 as stated: a send() can be called while another is in flight, and at the step where
\* a send() fails the items of the other send() calls are in both sequences as before.
C28_RollbackOwnItemsOnly ==
    /\ []CanSend
    /\ [][\A t \in Turns :
             FailsNow(t) =>
                 /\ OthersIn(conversation', t) = OthersIn(conversation, t)
                 /\ OthersIn(requestHistory', t) = OthersIn(requestHistory, t)]_vars

\* C28: overlapping turns.  A send() can be called while another is in flight; at the
\* step where a send() fails each sequence is cut to the length it had when that send()
\* was called: the items below that index stay in place and every item from it on is
\* removed, whichever send() appended it.
C28_RollbackTruncates ==
    /\ []CanSend
    /\ [][\A t \in Turns :
             FailsNow(t) =>
                 /\ KeptUpTo(conversation, conversation', conversationStartIndex[t])
                 /\ KeptUpTo(requestHistory, requestHistory', requestStartIndex[t])]_vars

\* a send() has failed while a send() called after it is still in flight, and the user
\* message of the later one is in neither sequence
C28_Witness ==
    \E t, u \in Turns :
        /\ t < u /\ Rejected(t) /\ InFlight(u)
        /\ \A i \in 1..Len(conversation) : conversation[i].origin[1] # u
        /\ \A i \in 1..Len(requestHistory) : requestHistory[i].origin[1] # u
        /\ ~resetInFlight


Starts(t) == pc[t] = "idle" /\ pc'[t] # "idle"

\* C29: the assistant panel serializes turns.  Whatever the order of clicks, Enter presses
\* and 'assistant:sendMessage' calls, a step that calls assistantClient.send finds no
\* earlier send() in flight and isSending false, and leaves isSending true with that call
\* awaited; a sendMessage call made while isSending is true starts no send(), nor does
\* the resumption of sendMessage after its await.
C29_PanelSerializesTurns ==
    [][\A t \in Turns :
          /\ Starts(t) =>
                /\ Quiet
                /\ ~panel.isSending
                /\ panel'.isSending /\ panel'.awaiting = t
          /\ panel.isSending => ~Starts(t)]_vars

\* a sendMessage call was dropped while a send() was awaited, and after that send() had
\* settled and sendMessage had resumed, a later call started the next send()
C29_Witness ==
    /\ panel.dropped
    /\ panel.isSending /\ panel.awaiting = 2
    /\ Settled(1) /\ InFlight(2)


HoldsItemOf(items, t) == \E i \in 1..Len(items) : items[i].origin[1] = t
\* send() call t is in flight and its user message is gone: with send() calls serialized,
\* resetConversation() has run since t was called
ResetDuring(t) ==
    /\ InFlight(t)
    /\ \A i \in 1..Len(conversation) : conversation[i].origin # <<t, 0>>

\* C30 as stated: once resetConversation() has run while send() call t was in flight, no
\* item of t is in either sequence, whatever t goes on to do.
C30_NothingAfterReset ==
    [][\A t \in Turns :
          ResetDuring(t) =>
              /\ ~HoldsItemOf(conversation', t)
              /\ ~HoldsItemOf(requestHistory', t)]_vars

\* C30: reset during a turn.  resetConversation() called while a send() is in flight
\* leaves both sequences with the initial items only, so without any item of that send();
\* the send() is not cancelled: each of its later steps appends to the sequences as the
\* reset left them, and the step in which it fails cuts them at the start indices it
\* recorded before the reset.
C30_ResetThenAppends ==
    [][/\ (ResetConversation /\ ~Quiet) =>
              /\ conversation' = InitialItems /\ requestHistory' = InitialItems
              /\ \A t \in Turns : InFlight(t) =>
                    ~HoldsItemOf(conversation', t) /\ ~HoldsItemOf(requestHistory', t)
       /\ \A t \in Turns :
             (ResetDuring(t) /\ pc'[t] # pc[t] /\ ~Rejected(t)') =>
                 /\ IsPrefix(conversation, conversation')
                 /\ IsPrefix(requestHistory, requestHistory')
       /\ \A t \in Turns :
             (ResetDuring(t) /\ Rejected(t)') =>
                 /\ KeptUpTo(conversation, conversation', conversationStartIndex[t])
                 /\ KeptUpTo(requestHistory, requestHistory', requestStartIndex[t])]_vars

\* a send() has resolved whose user message a reset removed while it was in flight, and
\* its assistant message is in both sequences
C30_Witness ==
    \E t \in Turns :
        /\ Resolved(t)
        /\ \A i \in 1..Len(conversation) : conversation[i].origin # <<t, 0>>
        /\ \E i \in 1..Len(conversation) :
              conversation[i].origin[1] = t /\ conversation[i].role = "assistant"
        /\ \E i \in 1..Len(requestHistory) :
              requestHistory[i].origin[1] = t /\ requestHistory[i].role = "assistant"


WithoutFinalReasoning(seq) ==
    SelectSeq(seq, LAMBDA item : ~(item.type = "reasoning" /\ Final(item.origin)))

KindOf(item) ==
    IF item.type = "message" THEN item.role ELSE item.type
\* the kinds that may follow an item of kind k in a sequence of complete turns; "start"
\* is the beginning of the sequence or the system message
MayFollow(k) ==
    CASE k \in {"start", "assistant"} -> {"user"}
      [] k = "user" -> {"reasoning", "function_call", "assistant"}
      [] k = "reasoning" -> {"reasoning", "function_call"}
      [] k = "function_call" -> {"function_call_output"}
      [] k = "function_call_output" -> {"reasoning", "function_call", "assistant"}
      [] OTHER -> {}
\* seq is the optional system message followed by complete turns
CompleteTurns(seq) ==
    LET first == Len(InitialItems) + 1
        kind(i) == IF i < first THEN "start" ELSE KindOf(seq[i])
    IN /\ IsPrefix(InitialItems, seq)
       /\ \A i \in first..Len(seq) : kind(i) \in MayFollow(kind(i - 1))
       /\ kind(Len(seq)) \in {"start", "assistant"}
       /\ Paired(seq)
       /\ \A i \in (first + 1)..Len(seq) :
             kind(i) # "user" => seq[i].origin[1] = seq[i - 1].origin[1]

\* C33: well-formed history at rest.  With send() calls and resets serialized, whenever
\* no send() is in flight requestHistory is the optional system message followed by
\* complete turns: a user message, rounds of reasoning items followed by call/result
\* pairs, one assistant message; it does not end with a user message, a call or a result.
C33_WellFormedAtRest ==
    Quiet => CompleteTurns(requestHistory)

\* at rest after a turn of one round: user message, call, result, assistant message
C33_Witness ==
    /\ Quiet
    /\ Len(requestHistory) = Len(InitialItems) + 4
    /\ KindOf(requestHistory[Len(requestHistory)]) = "assistant"
    /\ \E i \in 1..Len(requestHistory) : requestHistory[i].type = "function_call_output"


\* the handler calls made for response o
CallsMadeFor(log, o) == Len(SelectSeq(log, LAMBDA e : e.origin = o))
Applied == Obj(<<[key |-> "applied", value |-> Num(1)]>>)

\* C34: handler effects outlive rollback.  At the step where a send() fails, both
\* sequences are what they were when it was called, while no handler is called again and
\* no edit is taken back: for each earlier response of that send() every tool call has had
\* its handler called once, each of these calls has settled, for the failing response none
\* was called, and the edits made to entities and assets are all still there; nor does
\* any other step take an edit back.
C34_EffectsOutliveRollback ==
    [][/\ editor'.entities >= editor.entities /\ editor'.assets >= editor.assets
       /\ \A t \in Turns :
             FailsNow(t) =>
                 /\ conversation' = preTurn[t][1].conversation
                 /\ requestHistory' = preTurn[t][1].requestHistory
                 /\ editor'.entities = editor.entities /\ editor'.assets = editor.assets
                 /\ handlerLog' = handlerLog
                 /\ \A k \in 1..Len(handlerLog) :
                       handlerLog[k].turn = t => Len(handlerLog[k].settled) = 1
                 /\ \A r \in received' :
                       r.origin[1] = t =>
                           CallsMadeFor(handlerLog', r.origin) =
                               IF r \in received THEN r.toolCalls ELSE 0]_vars

\* a send() has failed after one of its handlers had edited: the edit is there and
\* neither sequence holds a call
C34_Witness ==
    \E t \in Turns :
        /\ Rejected(t)
        /\ editor.entities + editor.assets > 0
        /\ \E k \in 1..Len(handlerLog) :
              /\ handlerLog[k].turn = t
              /\ handlerLog[k].settled = <<[kind |-> "return", value |-> Applied]>>
        /\ \A i \in 1..Len(conversation) : conversation[i].type # "function_call"
        /\ \A i \in 1..Len(requestHistory) : requestHistory[i].type # "function_call"


\* the items seq has gained at its end in this step
Gained(before, after) == SubSeq(after, Len(before) + 1, Len(after))

\* C35: reasoning placement.  When a response with tool calls is received and send() goes on
\* to run them, both sequences gain all reasoning items of the response in the order of its
\* output and then its first call, wherever the calls stood in the output; so in the
\* wire history every reasoning item of a round stands before every call and result of it.
C35_ReasoningBeforeCalls ==
    /\ [](\A i, j \in 1..Len(requestHistory) :
             /\ requestHistory[i].type = "reasoning"
             /\ requestHistory[j].type \in {"function_call", "function_call_output"}
             /\ requestHistory[i].origin = requestHistory[j].origin
             => i < j)
    /\ [][\A t \in Turns :
             Receives(t) /\ pc'[t] = "AwaitingTools" =>
                 /\ \E output \in RoundOutputs(<<t, requestsIssued[t]>>) :
                       BackendResolves(t, [output |-> output, output_text |-> ""])
                 /\ \A output \in RoundOutputs(<<t, requestsIssued[t]>>) :
                       BackendResolves(t, [output |-> output, output_text |-> ""]) =>
                           LET placed == SelectType(output, "reasoning")
                                             \o <<Head(SelectType(output, "function_call"))>>
                           IN /\ Gained(conversation, conversation') = placed
                              /\ Gained(requestHistory, requestHistory') = placed]_vars

\* the wire history holds the two reasoning items of a round, the second one of the
\* output first, before its call, although the response arrived with the call in between
C35_Witness ==
    \E i \in 1..(Len(requestHistory) - 2) :
        /\ requestHistory[i].type = "reasoning" /\ requestHistory[i].id = "rs_2"
        /\ requestHistory[i + 1].type = "reasoning" /\ requestHistory[i + 1].id = "rs_1"
        /\ requestHistory[i + 2].type = "function_call"
        /\ requestHistory[i + 2].origin = requestHistory[i].origin
        /\ requestHistory[i + 1].origin = requestHistory[i].origin


\* no entity is its own parent or its own ancestor
Acyclic(parent) ==
    \A e \in Entities : parent[e] # 0 => ~isAncestorOf(parent, e, parent[e])

\* C36: reparenting keeps the hierarchy acyclic.  A call of reparent_entities_in_hierarchy
\* on a scene in which no entity is its own ancestor leaves such a scene, whatever its
\* list of operations.
C36_ReparentKeepsAcyclic ==
    [][Acyclic(editor.parent) => Acyclic(editor'.parent)]_vars

\* C37: one move per entity.  Of the entities handed to 'entities:reparent' in one call of
\* reparent_entities_in_hierarchy none is handed over twice, by whatever ids the
\* operations name it, and none is the scene root.
C37_OneMovePerEntity ==
    /\ \A i, j \in 1..Len(editor.reparented) :
           i # j => editor.reparented[i] # editor.reparented[j]
    /\ \A i \in 1..Len(editor.reparented) : editor.reparented[i] # getSceneRoot


\* C38: material update is all-or-nothing on error.  A call of update_material_asset
\* whose result carries an error leaves the data of the asset as it was before the call:
\* a step that changes the data ends with a result without error.
C38_MaterialAllOrNothing ==
    [][editor'.data # editor.data => editor'.updated.error = ""]_vars


\* the panel takes a message: nothing is being sent, the input can be written to and the
\* Send button is enabled
Usable == ~panel.isSending /\ ~panel.readOnly /\ panel.sendButtonEnabled
\* a message submitted now is passed to send()
Submits ==
    ENABLED (sendMessage(" hello ") /\ panel'.isSending /\ UNCHANGED editor)

\* C39: the panel always becomes usable again.  Once the send() the panel awaits has
\* resolved or rejected, isSending becomes false, the input writable and the Send button
\* enabled, and a message submitted then is passed to send() (while the run has a send()
\* left); the panel is locked only while it awaits a send().
C39_PanelBecomesUsable ==
    /\ \A t \in Turns : (panel.awaiting = t /\ Settled(t)) ~> Usable
    /\ [](Usable /\ (\E t \in Turns : pc[t] = "idle") => Submits)
    /\ [](isReady /\ ~Usable => panel.awaiting \in Turns)

\* the panel is usable again after a send() it started was rejected, an earlier one
\* having resolved
C39_Witness ==
    /\ Usable
    /\ \E t, u \in Turns : pc[t] = "Finished" /\ Rejected(u)

====
